---- MODULE Spec2Model ----
(***************************************************************************)
(* Foxhole Quartermaster: the Discord bot's tool-calling orchestration     *)
(* loop (discord-bot-python/src/ai/agent.py), its tool invoker             *)
(* (ai/gemini.py, mcp/client.py) and the MCP server's dispatcher           *)
(* (mcp-server/src/server.py).                                             *)
(***************************************************************************)
EXTENDS Integers, Sequences, FiniteSets, TLC

(***************************************************************************)
(* Python values                                                           *)
(***************************************************************************)

\* Python's None, where a str is expected.
None == "<None>"

\* A Python str, as a sequence of one-character strings.
Backtick == "BACKTICK"
Newline == "\n"
Fence == <<Backtick, Backtick, Backtick>>

\* str.strip() removes leading and trailing whitespace.
Whitespace == {" ", Newline, "\t"}

\* The regex class \w, over the alphabet the texts below are drawn from.
WordChars == {"a", "b", "_"}

(***************************************************************************)
(* strip_wrapping_code_blocks                                              *)
(***************************************************************************)

RECURSIVE LStrip(_)
LStrip(s) ==
    IF s # <<>> /\ Head(s) \in Whitespace THEN LStrip(Tail(s)) ELSE s

RECURSIVE RStrip(_)
RStrip(s) ==
    IF s # <<>> /\ s[Len(s)] \in Whitespace
    THEN RStrip(SubSeq(s, 1, Len(s) - 1))
    ELSE s

Strip(s) == RStrip(LStrip(s))

\* Number of leading \w characters of s (the greedy \w* of the pattern).
RECURSIVE WordPrefixLen(_)
WordPrefixLen(s) ==
    IF s # <<>> /\ Head(s) \in WordChars THEN 1 + WordPrefixLen(Tail(s)) ELSE 0

\* re.match of the pattern FENCE \w* \n? (.*?) FENCE $ with DOTALL: neither \w* nor \n?
\* can consume a backtick, and $ matches only at the end of a stripped text,
\* so the pattern matches exactly when the text opens and closes with
\* separate fences.
FenceMatches(stripped) ==
    /\ Len(stripped) >= 6
    /\ SubSeq(stripped, 1, 3) = Fence
    /\ SubSeq(stripped, Len(stripped) - 2, Len(stripped)) = Fence

\* match.group(1): what follows the opening fence, its language tag and one
\* optional newline, up to the closing fence.
FenceGroup(stripped) ==
    LET afterFence == SubSeq(stripped, 4, Len(stripped) - 3)
        nw == WordPrefixLen(afterFence)
        afterTag == SubSeq(afterFence, nw + 1, Len(afterFence))
    IN  IF afterTag # <<>> /\ Head(afterTag) = Newline
        THEN Tail(afterTag)
        ELSE afterTag

strip_wrapping_code_blocks(text) ==
    LET stripped == Strip(text)
    IN  IF FenceMatches(stripped) THEN Strip(FenceGroup(stripped)) ELSE text

\* The fixed message returned in place of an empty final text.
FallbackMessage == <<"f", "a", "l", "l", "b", "a", "c", "k">>

(***************************************************************************)
(* The MCP server: registry and dispatch                                   *)
(***************************************************************************)

\* The names McpServer._register_tools registers.
RegisteredTools ==
    {"search_inventory", "get_item_locations", "list_operations",
     "get_operation", "get_operation_deficit", "create_operation",
     "list_production_orders", "get_production_order",
     "create_production_order", "update_production_progress",
     "scan_screenshot", "save_scan_results", "get_scanner_channel",
     "resolve_discord_user", "get_dashboard_stats", "get_leaderboard",
     "list_stockpiles", "get_stockpile", "refresh_stockpile"}

\* A JSON object as the client sees it after response.json(): whether it is
\* an object at all, its "error" member, the shape of its "content" member,
\* and, for a content list, its first element.  A text is a str encoding
\* either an object with an "error" member or some other payload.
PyObject(isDict, hasError, errorMsg, content, first, ftype, ftext, textObj, textMsg) ==
    [isDict |-> isDict, hasError |-> hasError, errorMsg |-> errorMsg,
     content |-> content, first |-> first, ftype |-> ftype, ftext |-> ftext,
     textObj |-> textObj, textMsg |-> textMsg]

\* {"error": msg}
ErrorObject(msg) ==
    PyObject(TRUE, TRUE, msg, "absent", "dict", "text", "absent", "data", "")

\* {"content": [{"type": "text", "text": json.dumps({"error": msg})}], "isError": True}
ErrorContent(msg) ==
    PyObject(TRUE, FALSE, "", "list", "dict", "text", "str", "error", msg)

\* {"content": [{"type": "text", "text": json.dumps(payload)}]}
TextContent(payload) ==
    PyObject(TRUE, FALSE, "", "list", "dict", "text", "str", "data", payload)

\* What a tool handler may do with a call: return the usual text content,
\* raise, or return an object of another shape.
HandlerOutcomes ==
    { [raises |-> FALSE, exc |-> "", value |-> TextContent("payload")],
      [raises |-> TRUE, exc |-> "KeyError", value |-> ErrorObject("")],
      \* {"content": [{"type": "text", "text": null}]}
      [raises |-> FALSE, exc |-> "",
       value |-> PyObject(TRUE, FALSE, "", "list", "dict", "text", "null", "data", "")],
      \* {"content": [{"type": "text"}]}
      [raises |-> FALSE, exc |-> "",
       value |-> PyObject(TRUE, FALSE, "", "list", "dict", "text", "absent", "data", "")],
      \* {"content": [{"type": "image"}]}
      [raises |-> FALSE, exc |-> "",
       value |-> PyObject(TRUE, FALSE, "", "list", "dict", "image", "absent", "data", "")],
      \* {"content": ["text"]}
      [raises |-> FALSE, exc |-> "",
       value |-> PyObject(TRUE, FALSE, "", "list", "str", "text", "absent", "data", "")],
      \* {"content": []}
      [raises |-> FALSE, exc |-> "",
       value |-> PyObject(TRUE, FALSE, "", "empty", "dict", "text", "absent", "data", "")],
      \* {}
      [raises |-> FALSE, exc |-> "",
       value |-> PyObject(TRUE, FALSE, "", "absent", "dict", "text", "absent", "data", "")],
      \* []
      [raises |-> FALSE, exc |-> "",
       value |-> PyObject(FALSE, FALSE, "", "absent", "dict", "text", "absent", "data", "")] }

\* McpServer.call_tool without the lookup of the name in the registry.
McpServer_call_tool_unchecked(name, h) ==
    IF h.raises THEN ErrorContent(h.exc) ELSE h.value

\* McpServer.call_tool: an unregistered name is answered with an error
\* content, a handler's exception is converted to one, and a handler's
\* result is returned as it is.
McpServer_call_tool(name, h) ==
    IF name \notin RegisteredTools
    THEN ErrorContent("Unknown tool: " \o name)
    ELSE IF h.raises THEN ErrorContent(h.exc) ELSE h.value

\* handle_mcp_request for method "tools/call": status and JSON body.
handle_mcp_request(authorized, name, h) ==
    IF ~authorized
    THEN [status |-> 401, body |-> ErrorObject("Unauthorized")]
    ELSE IF name = ""
         THEN [status |-> 400, body |-> ErrorObject("Missing tool name")]
         ELSE [status |-> 200, body |-> McpServer_call_tool(name, h)]

(***************************************************************************)
(* The MCP client and the tool invoker                                     *)
(***************************************************************************)

\* How the HTTP exchange of one tool call ends: the server's response is
\* delivered, an intermediary answers 502 or with a body that is not JSON,
\* the 60 s timeout expires, or the connection fails.
NetOutcomes == {"delivered", "bad_gateway", "not_json", "timeout", "request_error"}

\* The environment of one tool call.
ToolEnvs ==
    [net : NetOutcomes, authorized : BOOLEAN, handler : HandlerOutcomes]

Returned(v) == [raised |-> FALSE, exc |-> "", value |-> v]
Raised(e) == [raised |-> TRUE, exc |-> e, value |-> ErrorObject("")]

\* McpClient.call_tool: returns a dict, or raises what it does not catch.
McpClient_call_tool(name, env) ==
    CASE env.net = "timeout" -> Returned(ErrorObject("Request timeout"))
      [] env.net = "request_error" -> Returned(ErrorObject("ConnectError"))
      [] env.net = "bad_gateway" -> Returned(ErrorObject("Server error: " \o ToString(502)))
      [] env.net = "not_json" -> Raised("JSONDecodeError")
      [] OTHER ->
            LET response == handle_mcp_request(env.authorized, name, env.handler)
            IN  IF response.status = 401
                THEN Returned(ErrorObject("Unauthorized"))
                ELSE IF response.status # 200
                     THEN Returned(ErrorObject("Server error: " \o ToString(response.status)))
                     ELSE Returned(response.body)

\* The values execute_function_call produces: a str that encodes an object
\* with an "error" member (obj = "error") or another payload (obj = "data"),
\* or a value that is not a str.
StrResult(obj, msg) == [ty |-> "str", obj |-> obj, msg |-> msg]
NoneResult == [ty |-> "NoneType", obj |-> "", msg |-> ""]

\* json.dumps(result)
json_dumps(result) ==
    IF result.hasError
    THEN StrResult("error", result.errorMsg)
    ELSE StrResult("data", "object")

\* json.dumps({"error": f"Failed to execute {name}: {e}"})
FailedToExecute(name, e) ==
    StrResult("error", "Failed to execute " \o name \o ": " \o e)

\* execute_function_call(name, args) in the environment env.
execute_function_call(name, env) ==
    LET r == McpClient_call_tool(name, env)
        result == r.value
    IN  IF r.raised
        THEN FailedToExecute(name, r.exc)
        ELSE IF ~result.isDict
        THEN FailedToExecute(name, "AttributeError")
        ELSE IF result.content = "list"
        THEN IF result.first # "dict"
             THEN FailedToExecute(name, "AttributeError")
             ELSE IF result.ftype = "text"
                  THEN CASE result.ftext = "str" -> StrResult(result.textObj, result.textMsg)
                         [] result.ftext = "null" -> NoneResult
                         [] OTHER -> json_dumps(result)
                  ELSE json_dumps(result)
        ELSE json_dumps(result)

(***************************************************************************)
(* The tool catalog advertised to the language model                       *)
(***************************************************************************)

\* FUNCTION_DECLARATIONS: each declared function with the names of its
\* declared parameters.
FUNCTION_DECLARATIONS ==
    [get_dashboard_stats |-> {"regimentId"},
     search_inventory |-> {"regimentId", "query", "category", "limit"},
     get_item_locations |-> {"regimentId", "itemCode"},
     list_stockpiles |-> {"regimentId", "hex"},
     get_stockpile |-> {"regimentId", "stockpileId", "stockpileName"},
     get_stockpile_minimums |-> {"regimentId", "stockpileId", "stockpileName"},
     list_production_orders |->
         {"regimentId", "status", "isMpf", "isStandingOrder", "limit"},
     get_production_order |-> {"regimentId", "orderId", "shortId"},
     list_operations |-> {"regimentId", "status", "limit"},
     get_operation |-> {"regimentId", "operationId"},
     get_operation_deficit |-> {"regimentId", "operationId"},
     refresh_stockpile |-> {"regimentId", "stockpileId", "userId"},
     get_leaderboard |-> {"regimentId", "period", "limit"}]

\* The declared parameters of a tool name; none for an undeclared name.
DeclaredParams(name) ==
    IF name \in DOMAIN FUNCTION_DECLARATIONS
    THEN FUNCTION_DECLARATIONS[name]
    ELSE {}

(***************************************************************************)
(* What the language model may answer                                      *)
(***************************************************************************)

\* The tool names the model requests: one whose schema has no userId, one
\* whose schema has it, and one that is neither declared nor registered.
ModelToolNames == {"search_inventory", "refresh_stockpile", "do_magic"}

\* The values the model supplies for the arguments it gives.
ModelSupplied == [regimentId |-> "X", userId |-> "V", query |-> "bmat"]

\* An argument bag: a mapping from the given keys to their values.
Bag(keys) == [k \in keys |-> ModelSupplied[k]]

ModelArgBags ==
    { Bag({}), Bag({"query"}), Bag({"regimentId", "query"}),
      Bag({"userId"}), Bag({"regimentId", "userId"}) }

FunctionCall(name, a) == [name |-> name, args |-> a]

\* The batches of function calls the model may request in one conversation:
\* single calls of one tool with any of the argument bags and one pair of
\* calls, or single calls of the unregistered tool only.
SingleCalls(n) == { <<FunctionCall(n, a)>> : a \in ModelArgBags }

ModelBehaviours ==
    { SingleCalls("search_inventory")
          \cup { <<FunctionCall("do_magic", Bag({})),
                   FunctionCall("search_inventory", Bag({"query"}))>> },
      SingleCalls("refresh_stockpile")
          \cup { <<FunctionCall("do_magic", Bag({})),
                   FunctionCall("do_magic", Bag({"query"}))>> },
      SingleCalls("do_magic") }

\* The texts of the model's text parts.
ModelTexts ==
    { <<>>, <<"a">>, <<" ">>,
      Fence \o Fence,
      Fence \o <<"a">> \o Fence,
      Fence \o <<Newline, "a", " ", "b", Newline>> \o Fence,
      <<"a", " ">> \o Fence \o <<"b">> \o Fence }

\* A response: its text part, if it has one, and its function_call parts.
Response(hasText, text, calls) ==
    [hasText |-> hasText, text |-> text, calls |-> calls]

NoResponse == Response(FALSE, <<>>, <<>>)

ModelResponses(batches) ==
    { Response(TRUE, t, <<>>) : t \in ModelTexts }
    \cup { Response(FALSE, <<>>, <<>>) }
    \cup { Response(FALSE, <<>>, b) : b \in batches }
    \cup { Response(TRUE, <<"a">>, b) : b \in batches }

\* response.text is the library's quick accessor.  It returns the text of a
\* response made of one text part; for a response with function_call parts
\* or with no part it raises ValueError in the library versions that exist,
\* and both outcomes are kept here for such a response.
TextOutcomes(resp) ==
    IF resp.hasText /\ resp.calls = <<>>
    THEN { [raised |-> FALSE, text |-> resp.text] }
    ELSE { [raised |-> TRUE, text |-> <<>>],
           [raised |-> FALSE, text |-> IF resp.hasText THEN resp.text ELSE <<>>] }

(***************************************************************************)
(* process_with_ai                                                         *)
(***************************************************************************)

max_iterations == 5

\* Runs are followed up to this many model requests.
MaxRequests == 7

\* A loop that never looks at the iteration count.
LoopContinues_forever(it) == TRUE

\* The loop condition of the tool-calling loop.
LoopContinues(it) == it <= max_iterations

\* A loop that sends the results back after the first call of the batch.
MoreCalls_none(i, calls) == FALSE

\* The for loop over function_calls has calls left after call number i.
MoreCalls(i, calls) == i < Len(calls)

\* A context value that is used without testing that it is available.
Truthy_always(v) == TRUE

\* Python truthiness of an optional str.
Truthy(v) == v # None /\ v # ""

\* args with key set to value.
WithKey(a, key, value) ==
    [k \in DOMAIN a \cup {key} |-> IF k = key THEN value ELSE a[k]]

\* Injection that does not test whether the model gave the key.
InjectedKeys_overwrite(a, rid, uid) ==
    (IF Truthy(rid) THEN {"regimentId"} ELSE {})
    \cup (IF Truthy(uid) THEN {"userId"} ELSE {})

\* The contextual keys process_with_ai adds to a call's arguments.
InjectedKeys(a, rid, uid) ==
    (IF Truthy(rid) /\ "regimentId" \notin DOMAIN a THEN {"regimentId"} ELSE {})
    \cup (IF Truthy(uid) /\ "userId" \notin DOMAIN a THEN {"userId"} ELSE {})

\* Injection that adds the regiment id and forgets the user id.
InjectContext_regiment_only(a, rid, uid) ==
    IF "regimentId" \in InjectedKeys(a, rid, uid)
    THEN WithKey(a, "regimentId", rid) ELSE a

\* The arguments passed to execute_function_call for a call with arguments a.
InjectContext(a, rid, uid) ==
    LET a1 == IF "regimentId" \in InjectedKeys(a, rid, uid)
              THEN WithKey(a, "regimentId", rid) ELSE a
    IN  IF "userId" \in InjectedKeys(a, rid, uid)
        THEN WithKey(a1, "userId", uid) ELSE a1

\* A return without the test for an empty text.
FinalText_unguarded(text) == strip_wrapping_code_blocks(text)

\* The text process_with_ai returns for the final response text.
FinalText(text) ==
    LET cleaned == strip_wrapping_code_blocks(text)
    IN  IF cleaned = <<>> THEN FallbackMessage ELSE cleaned

\* The environments of the tool calls made by a run.
LoopToolEnvs ==
    { e \in ToolEnvs :
        /\ e.authorized
        /\ e.net \in {"delivered", "timeout"}
        /\ e.handler.value.ftext \in {"str", "null"} }

VARIABLES
    pc,                 \* where the run is: start, awaitModel, awaitTool, returned, raised
    regiment_id,        \* argument of process_with_ai
    user_id,            \* argument of process_with_ai
    debug,              \* logger._logger.level <= 10
    model_batches,      \* the function-call batches this conversation's model requests
    request_id,         \* logger._request_id
    response,           \* the last model response
    iterations,
    function_calls,     \* the function calls of the response being handled
    idx,                \* position in function_calls of the call in flight
    args,               \* the arguments of the call in flight
    function_responses, \* the results collected for this batch
    tools_called,
    requests,           \* how many times chat.send_message_async was called
    outbound,           \* the turn sent to the model and not yet answered
    retval,             \* what process_with_ai returned
    exc,                \* the exception that left process_with_ai
    delivered,          \* for each result of this batch: did the server's answer arrive
    model_failed,       \* chat.send_message_async has raised
    requested,          \* the names of the function calls of all responses so far
    batches,            \* how many batches of function calls were executed to the end
    inflight            \* the positions of the calls given to execute_function_call
                        \* that have not returned

agentVars ==
    <<pc, regiment_id, user_id, debug, model_batches, request_id, response, iterations,
      function_calls, idx, args, function_responses, tools_called, requests,
      outbound, retval, exc, delivered, model_failed, requested, batches, inflight>>

VARIABLES
    ex_pc,              \* call, done
    ex_name,            \* the tool name given to execute_function_call
    ex_env,             \* how the underlying call goes
    ex_result           \* what execute_function_call returned

invokerVars == <<ex_pc, ex_name, ex_env, ex_result>>

VARIABLES
    run_pc,             \* for each of two runs: start, awaitModel, awaitTool, returned, raised
    run_request_id,     \* for each run: its local request_id
    run_iterations,     \* for each run: its iterations
    run_more,           \* for each run: the batch has calls after the one in flight
    logger_request_id,  \* logger._request_id, the one slot of the process
    last_line           \* the last log line written: the run that wrote it and its prefix

runsVars ==
    <<run_pc, run_request_id, run_iterations, run_more, logger_request_id, last_line>>

VARIABLES
    h_pc,                   \* build, built
    system_prompt,          \* what build_system_prompt returned
    conversation_history,   \* argument of process_with_ai: None or a list of (role, content)
    history                 \* the list given to model.start_chat

historyVars == <<h_pc, system_prompt, conversation_history, history>>

VARIABLES
    cl_pc,              \* first, second, done
    cl_text,            \* the text given to strip_wrapping_code_blocks
    cl_once,            \* the result of cleaning cl_text
    cl_twice            \* the result of cleaning cl_once

cleanVars == <<cl_pc, cl_text, cl_once, cl_twice>>

VARIABLES
    reg_pc,             \* startup, serving
    registry,           \* McpServer._tools, in insertion order
    reg_count,          \* how many times McpServer.tool was called
    reg_op,             \* the last operation on the server and the name it was given
    reg_raised,         \* the exception the last operation raised
    reg_listing,        \* what the last list_tools returned
    reg_answer          \* what the last call_tool returned

registryVars ==
    <<reg_pc, registry, reg_count, reg_op, reg_raised, reg_listing, reg_answer>>

VARIABLES
    timers,             \* logger._timers: for each label its start time, or Absent
    tm_clock,           \* time.perf_counter(), in milliseconds
    tm_own,             \* for each run and label: when that run called time(label)
    tm_op,              \* the last call on the logger: time or time_end, by which run, which label
    tm_ret,             \* what the last time_end returned
    tm_expected         \* the time elapsed since the caller's own time(label), when it made one

timerVars == <<timers, tm_clock, tm_own, tm_op, tm_ret, tm_expected>>

VARIABLES
    sp_pc,              \* split, done
    sp_text,            \* the text given to split_message
    sp_max,             \* the max_length given to split_message
    sp_chunks           \* what split_message returned

splitVars == <<sp_pc, sp_text, sp_max, sp_chunks>>

VARIABLES
    hm_pc,              \* gate, run, sending, done, ignored, helped, refused
    hm_message,         \* the message: author, channel, mention, content, guild
    hm_outcome,         \* what process_with_ai does for this message
    hm_chunks,          \* the chunks of a long response
    hm_next,            \* the position in hm_chunks of the next chunk to send
    hm_sent,            \* the messages sent to Discord for this message, in order
    hm_propagated       \* the exception that left handle_message

handlerVars ==
    <<hm_pc, hm_message, hm_outcome, hm_chunks, hm_next, hm_sent, hm_propagated>>

VARIABLES
    fc_pc,              \* fetch, done
    fc_channel,         \* the messages before the current one, newest first
    fc_fail_at,         \* the position at which reading the channel fails, 0 for never
    fc_max,             \* max_messages
    fc_result           \* what fetch_conversation_history returned

fetchVars == <<fc_pc, fc_channel, fc_fail_at, fc_max, fc_result>>

VARIABLES
    sv_buttons,         \* the view still holds its Confirm and Cancel buttons
    sv_embed,           \* the title of the embed the reply shows
    sv_finished,        \* the view has timed out
    sv_clicks,          \* per click: who clicked, which button, where its callback is
    sv_log,             \* the MCP tools called and the endings of the view, in order
    sv_ephemeral        \* how many rejection messages were sent

scanVars == <<sv_buttons, sv_embed, sv_finished, sv_clicks, sv_log, sv_ephemeral>>

VARIABLES
    db_stockpiles,      \* the Stockpile rows with their StockpileItem rows, by id
    db_scans,           \* the StockpileScan rows with their items, in order of creation
    db_refreshes,       \* the StockpileRefresh rows, in order of creation
    db_now,             \* datetime.utcnow()
    db_call,            \* the last tool call: its number, tool and arguments
    db_result           \* what the last tool call returned

dbVars == <<db_stockpiles, db_scans, db_refreshes, db_now, db_call, db_result>>

VARIABLES
    po_status,          \* the status column of the order
    po_isMpf,           \* the isMpf column of the order
    po_items,           \* the ProductionOrderItem rows of the order
    po_contributions,   \* the quantities of the ProductionContribution rows
    po_calls            \* how often update_production_progress has run

prodVars == <<po_status, po_isMpf, po_items, po_contributions, po_calls>>

VARIABLES
    sc_cache,           \* _scanner_channel_cache: guild id -> entry
    sc_now,             \* time.time()
    sc_calls,           \* the calls of _get_scanner_channel_id
    sc_fetches          \* the guilds get_scanner_channel was called for, in order

cacheVars == <<sc_cache, sc_now, sc_calls, sc_fetches>>

VARIABLES
    od_pc,              \* compute, done
    od_requirements,    \* operation.requirements
    od_inventory,       \* inventory_map: item code -> total quantity
    od_items,           \* deficit_analysis
    od_summary          \* the summary of the answer

deficitVars == <<od_pc, od_requirements, od_inventory, od_items, od_summary>>

vars ==
    <<agentVars, invokerVars, runsVars, historyVars, cleanVars, registryVars,
      timerVars, splitVars, handlerVars, fetchVars, scanVars, dbVars, prodVars,
      cacheVars, deficitVars>>

\* The variables each part of the program leaves alone.
notAgentVars ==
    <<invokerVars, runsVars, historyVars, cleanVars, registryVars, timerVars,
      splitVars, handlerVars, fetchVars, scanVars, dbVars, prodVars, cacheVars,
      deficitVars>>
notInvokerVars ==
    <<agentVars, runsVars, historyVars, cleanVars, registryVars, timerVars,
      splitVars, handlerVars, fetchVars, scanVars, dbVars, prodVars, cacheVars,
      deficitVars>>
notRunsVars ==
    <<agentVars, invokerVars, historyVars, cleanVars, registryVars, timerVars,
      splitVars, handlerVars, fetchVars, scanVars, dbVars, prodVars, cacheVars,
      deficitVars>>
notHistoryVars ==
    <<agentVars, invokerVars, runsVars, cleanVars, registryVars, timerVars,
      splitVars, handlerVars, fetchVars, scanVars, dbVars, prodVars, cacheVars,
      deficitVars>>
notCleanVars ==
    <<agentVars, invokerVars, runsVars, historyVars, registryVars, timerVars,
      splitVars, handlerVars, fetchVars, scanVars, dbVars, prodVars, cacheVars,
      deficitVars>>
notRegistryVars ==
    <<agentVars, invokerVars, runsVars, historyVars, cleanVars, timerVars, splitVars,
      handlerVars, fetchVars, scanVars, dbVars, prodVars, cacheVars, deficitVars>>
notTimerVars ==
    <<agentVars, invokerVars, runsVars, historyVars, cleanVars, registryVars,
      splitVars, handlerVars, fetchVars, scanVars, dbVars, prodVars, cacheVars,
      deficitVars>>
notSplitVars ==
    <<agentVars, invokerVars, runsVars, historyVars, cleanVars, registryVars,
      timerVars, handlerVars, fetchVars, scanVars, dbVars, prodVars, cacheVars,
      deficitVars>>
notHandlerVars ==
    <<agentVars, invokerVars, runsVars, historyVars, cleanVars, registryVars,
      timerVars, splitVars, fetchVars, scanVars, dbVars, prodVars, cacheVars,
      deficitVars>>
notFetchVars ==
    <<agentVars, invokerVars, runsVars, historyVars, cleanVars, registryVars,
      timerVars, splitVars, handlerVars, scanVars, dbVars, prodVars, cacheVars,
      deficitVars>>
notScanVars ==
    <<agentVars, invokerVars, runsVars, historyVars, cleanVars, registryVars,
      timerVars, splitVars, handlerVars, fetchVars, dbVars, prodVars, cacheVars,
      deficitVars>>
notDbVars ==
    <<agentVars, invokerVars, runsVars, historyVars, cleanVars, registryVars,
      timerVars, splitVars, handlerVars, fetchVars, scanVars, prodVars, cacheVars,
      deficitVars>>
notProdVars ==
    <<agentVars, invokerVars, runsVars, historyVars, cleanVars, registryVars,
      timerVars, splitVars, handlerVars, fetchVars, scanVars, dbVars, cacheVars,
      deficitVars>>
notCacheVars ==
    <<agentVars, invokerVars, runsVars, historyVars, cleanVars, registryVars,
      timerVars, splitVars, handlerVars, fetchVars, scanVars, dbVars, prodVars,
      deficitVars>>
notDeficitVars ==
    <<agentVars, invokerVars, runsVars, historyVars, cleanVars, registryVars,
      timerVars, splitVars, handlerVars, fetchVars, scanVars, dbVars, prodVars,
      cacheVars>>

\* The two overlapping runs.
Runs == {1, 2}

\* The turn that carries the user's message, and one that carries results.
UserTurn == [user |-> TRUE, parts |-> <<>>]
ResultsTurn(parts) == [user |-> FALSE, parts |-> parts]
NoTurn == [user |-> FALSE, parts |-> <<>>]

FunctionResponse(name, result) == [name |-> name, result |-> result]

\* The names of a sequence of function calls, in order.
Names(calls) == [i \in 1..Len(calls) |-> calls[i].name]

\* Line 183: tools_called.append(call.name).
RecordTool(called, name) == Append(called, name)

AgentIdle ==
    /\ pc = "idle"
    /\ regiment_id = None
    /\ user_id = None
    /\ debug = FALSE
    /\ model_batches = {}
    /\ request_id = None
    /\ response = NoResponse
    /\ iterations = 1
    /\ function_calls = <<>>
    /\ idx = 0
    /\ args = Bag({})
    /\ function_responses = <<>>
    /\ tools_called = <<>>
    /\ requests = 0
    /\ outbound = NoTurn
    /\ retval = <<>>
    /\ exc = ""
    /\ delivered = <<>>
    /\ model_failed = FALSE
    /\ requested = <<>>
    /\ batches = 0
    /\ inflight = {}

InvokerIdle ==
    /\ ex_pc = "idle"
    /\ ex_name = ""
    /\ ex_env = CHOOSE e \in ToolEnvs : TRUE
    /\ ex_result = NoneResult

\* A log line written by run r with the given prefix, and no line.
Line(r, prefix) == [run |-> r, prefix |-> prefix]
NoLine == [run |-> 0, prefix |-> ""]

RunsIdle ==
    /\ run_pc = [r \in Runs |-> "idle"]
    /\ run_request_id = [r \in Runs |-> None]
    /\ run_iterations = [r \in Runs |-> 1]
    /\ run_more = [r \in Runs |-> FALSE]
    /\ logger_request_id = None
    /\ last_line = NoLine

\* The values of conversation_history: None, or a list of (role, content).
NoHistory == [isNone |-> TRUE, items |-> <<>>]
HistoryList(items) == [isNone |-> FALSE, items |-> items]

HistoryIdle ==
    /\ h_pc = "idle"
    /\ system_prompt = ""
    /\ conversation_history = NoHistory
    /\ history = <<>>

CleanIdle ==
    /\ cl_pc = "idle"
    /\ cl_text = <<>>
    /\ cl_once = <<>>
    /\ cl_twice = <<>>

\* An operation on the server, and none.
ServerOp(op, name) == [op |-> op, name |-> name]
NoOp == ServerOp("", "")

RegistryIdle ==
    /\ reg_pc = "idle"
    /\ registry = <<>>
    /\ reg_count = 0
    /\ reg_op = NoOp
    /\ reg_raised = ""
    /\ reg_listing = <<>>
    /\ reg_answer = ErrorObject("")

\* No entry in a timer table.
Absent == -1

\* The labels process_with_ai times.
TimerLabels == {"gemini-request", "agent-total"}

TimerOp(op, r, label) == [op |-> op, run |-> r, label |-> label]
NoTimerOp == TimerOp("", 0, "")

TimerIdle ==
    /\ timers = [l \in TimerLabels |-> Absent]
    /\ tm_clock = 0
    /\ tm_own = [r \in Runs |-> [l \in TimerLabels |-> Absent]]
    /\ tm_op = NoTimerOp
    /\ tm_ret = 0
    /\ tm_expected = Absent

SplitIdle ==
    /\ sp_pc = "idle"
    /\ sp_text = <<>>
    /\ sp_max = 1
    /\ sp_chunks = <<>>

\* What process_with_ai does: return a text or raise.
AiReturned(text) == [raises |-> FALSE, exc |-> "", text |-> text]
AiRaised(e) == [raises |-> TRUE, exc |-> e, text |-> <<>>]

\* A message as the gating of handle_message sees it.
Message(bot, authorized, dm, mentioned, empty, guild) ==
    [author_bot |-> bot, author_authorized |-> authorized, is_dm |-> dm,
     is_mentioned |-> mentioned, content_empty |-> empty, has_guild |-> guild]

HandlerIdle ==
    /\ hm_pc = "idle"
    /\ hm_message = Message(FALSE, FALSE, FALSE, FALSE, FALSE, FALSE)
    /\ hm_outcome = AiRaised("")
    /\ hm_chunks = <<>>
    /\ hm_next = 1
    /\ hm_sent = <<>>
    /\ hm_propagated = ""

FetchIdle ==
    /\ fc_pc = "idle"
    /\ fc_channel = <<>>
    /\ fc_fail_at = 0
    /\ fc_max = 1
    /\ fc_result = <<>>

MaxClicks == 2
Clicks == 1..MaxClicks

\* A click on a button of the view: its user, its button and the position of
\* its callback.
Click(user, button, at) == [user |-> user, button |-> button, pc |-> at]
NoClick == Click("", "", "none")

ScanIdle ==
    /\ sv_buttons = FALSE
    /\ sv_embed = ""
    /\ sv_finished = FALSE
    /\ sv_clicks = [i \in Clicks |-> NoClick]
    /\ sv_log = <<>>
    /\ sv_ephemeral = 0

\* A call of a stockpile tool with its arguments.
DbCall(n, tool, regimentId, stockpileId, userId, items) ==
    [n |-> n, tool |-> tool, regimentId |-> regimentId,
     stockpileId |-> stockpileId, userId |-> userId, items |-> items]
NoDbCall == DbCall(0, "", "", "", "", <<>>)

DbIdle ==
    /\ db_stockpiles = <<>>
    /\ db_scans = <<>>
    /\ db_refreshes = <<>>
    /\ db_now = 0
    /\ db_call = NoDbCall
    /\ db_result = None

ProdIdle ==
    /\ po_status = ""
    /\ po_isMpf = FALSE
    /\ po_items = <<>>
    /\ po_contributions = <<>>
    /\ po_calls = 0

MaxCacheCalls == 2
CacheCalls == 1..MaxCacheCalls

\* A call of _get_scanner_channel_id: its guild, the time it read, where it
\* is, what it returned and how many fetches it made.
CacheCall(guild, now, at, ret, fetched) ==
    [guild |-> guild, now |-> now, pc |-> at, ret |-> ret, fetched |-> fetched]
NoCacheCall == CacheCall("", 0, "none", None, 0)

CacheIdle ==
    /\ sc_cache = <<>>
    /\ sc_now = 0
    /\ sc_calls = [c \in CacheCalls |-> NoCacheCall]
    /\ sc_fetches = <<>>

\* The summary of get_operation_deficit.
DeficitSummary(required, available, deficit, overall, critical, partial, fulfilled) ==
    [totalRequired |-> required, totalAvailable |-> available,
     totalDeficit |-> deficit, overallFulfillment |-> overall,
     criticalCount |-> critical, partialCount |-> partial,
     fulfilledCount |-> fulfilled]
NoSummary == DeficitSummary(0, 0, 0, 0, 0, 0, 0)

DeficitIdle ==
    /\ od_pc = "idle"
    /\ od_requirements = <<>>
    /\ od_inventory = <<>>
    /\ od_items = <<>>
    /\ od_summary = NoSummary

\* process_with_ai has been called with some context and has not yet run.
Init ==
    /\ pc = "start"
    /\ regiment_id \in {None, "Y"}
    /\ user_id \in {None, "U"}
    /\ debug \in BOOLEAN
    /\ model_batches \in ModelBehaviours
    /\ request_id = None
    /\ response = NoResponse
    /\ iterations = 1
    /\ function_calls = <<>>
    /\ idx = 0
    /\ args = Bag({})
    /\ function_responses = <<>>
    /\ tools_called = <<>>
    /\ requests = 0
    /\ outbound = NoTurn
    /\ retval = <<>>
    /\ exc = ""
    /\ delivered = <<>>
    /\ model_failed = FALSE
    /\ requested = <<>>
    /\ batches = 0
    /\ inflight = {}
    /\ InvokerIdle
    /\ RunsIdle
    /\ HistoryIdle
    /\ CleanIdle
    /\ RegistryIdle
    /\ TimerIdle
    /\ SplitIdle
    /\ HandlerIdle
    /\ FetchIdle
    /\ ScanIdle
    /\ DbIdle
    /\ ProdIdle
    /\ CacheIdle
    /\ DeficitIdle

\* Lines 52-124: set the request id, build the chat and send the user message.
SendUserMessage ==
    /\ pc = "start"
    /\ request_id' = "req"
    /\ requests' = requests + 1
    /\ outbound' = UserTurn
    /\ pc' = "awaitModel"
    /\ UNCHANGED <<regiment_id, user_id, debug, model_batches, response, iterations,
                   function_calls, idx, args, function_responses,
                   tools_called, retval, exc, delivered, model_failed,
                   requested, batches, inflight>>

\* A dispatch that starts every call of the batch at once.
DispatchCall_whole_batch(calls, i) ==
    /\ function_calls' = calls
    /\ idx' = i
    /\ args' = InjectContext(calls[i].args, regiment_id, user_id)
    /\ inflight' = 1..Len(calls)
    /\ pc' = "awaitTool"

\* Lines 156-174: take call number i of the batch, inject the context and
\* start execute_function_call.
DispatchCall(calls, i) ==
    /\ function_calls' = calls
    /\ idx' = i
    /\ args' = InjectContext(calls[i].args, regiment_id, user_id)
    /\ inflight' = {i}
    /\ pc' = "awaitTool"

\* Lines 202-218: clean the final text, log the summary, clear the request
\* id and return; response.text may raise instead.
Finish(resp) ==
    \E o \in TextOutcomes(resp) :
        IF o.raised
        THEN /\ pc' = "raised"
             /\ exc' = "ValueError"
             /\ UNCHANGED <<request_id, retval>>
        ELSE /\ pc' = "returned"
             /\ request_id' = None
             /\ retval' = FinalText(o.text)
             /\ UNCHANGED exc

\* chat.send_message_async returns a response: lines 125-153 and, after the
\* loop, 202-218.  With function calls and iterations left, the first call
\* is dispatched; otherwise the run ends.
ModelResponds ==
    /\ pc = "awaitModel"
    /\ \E r \in ModelResponses(model_batches) :
        /\ response' = r
        /\ outbound' = NoTurn
        /\ IF LoopContinues(iterations) /\ r.calls # <<>>
           THEN /\ DispatchCall(r.calls, 1)
                /\ function_responses' = <<>>
                /\ delivered' = <<>>
                /\ UNCHANGED <<request_id, retval, exc>>
           ELSE /\ IF LoopContinues(iterations)
                   THEN \E o \in TextOutcomes(r) :
                            IF o.raised
                            THEN /\ pc' = "raised"
                                 /\ exc' = "ValueError"
                                 /\ UNCHANGED <<request_id, retval>>
                            ELSE Finish(r)
                   ELSE Finish(r)
                /\ UNCHANGED <<function_calls, idx, args, function_responses,
                               delivered, inflight>>
        /\ requested' = requested \o Names(r.calls)
    /\ UNCHANGED <<regiment_id, user_id, debug, model_batches, iterations,
                   tools_called, requests, model_failed, batches>>

\* A run that sends the same turn again when the request fails.
ModelFails_retried ==
    /\ pc = "awaitModel"
    /\ requests < MaxRequests
    /\ requests' = requests + 1
    /\ model_failed' = TRUE
    /\ UNCHANGED <<pc, regiment_id, user_id, debug, model_batches, request_id, response,
                   iterations, function_calls, idx, args, function_responses,
                   tools_called, outbound, retval, exc, delivered, requested, batches,
                   inflight>>

\* chat.send_message_async raises: the exception leaves process_with_ai.
ModelFails ==
    /\ pc = "awaitModel"
    /\ pc' = "raised"
    /\ exc' = "ModelError"
    /\ outbound' = NoTurn
    /\ model_failed' = TRUE
    /\ UNCHANGED <<regiment_id, user_id, debug, model_batches, request_id, response,
                   iterations, function_calls, idx, args, function_responses,
                   tools_called, requests, retval, delivered, requested, batches,
                   inflight>>

\* execute_function_call returns: lines 175-199.  The result is recorded;
\* then the next call of the batch is dispatched, or the batch is sent back
\* to the model.  With debug logging, printing a result that is not a str
\* raises TypeError.
ToolReturns ==
    /\ pc = "awaitTool"
    /\ \E env \in LoopToolEnvs :
        LET call == function_calls[idx]
            function_result == execute_function_call(call.name, env)
            collected == Append(function_responses,
                                FunctionResponse(call.name, function_result))
        IN  IF debug /\ function_result.ty # "str"
            THEN /\ pc' = "raised"
                 /\ exc' = "TypeError"
                 /\ inflight' = inflight \ {idx}
                 /\ UNCHANGED <<iterations, function_calls, idx, args,
                                function_responses, tools_called, requests,
                                outbound, delivered, batches>>
            ELSE /\ tools_called' = RecordTool(tools_called, call.name)
                 /\ function_responses' = collected
                 /\ delivered' = Append(delivered, env.net = "delivered")
                 /\ UNCHANGED exc
                 /\ IF MoreCalls(idx, function_calls)
                    THEN /\ DispatchCall(function_calls, idx + 1)
                         /\ UNCHANGED <<iterations, requests, outbound, batches>>
                    ELSE /\ requests < MaxRequests
                         /\ inflight' = inflight \ {idx}
                         /\ batches' = batches + 1
                         /\ iterations' = iterations + 1
                         /\ requests' = requests + 1
                         /\ outbound' = ResultsTurn(collected)
                         /\ pc' = "awaitModel"
                         /\ UNCHANGED <<function_calls, idx, args>>
    /\ UNCHANGED <<regiment_id, user_id, debug, model_batches, request_id, response,
                   retval, model_failed, requested>>

Next ==
    \/ SendUserMessage /\ UNCHANGED notAgentVars
    \/ ModelResponds /\ UNCHANGED notAgentVars
    \/ ModelFails /\ UNCHANGED notAgentVars
    \/ ToolReturns /\ UNCHANGED notAgentVars

Spec == Init /\ [][Next]_vars

\* Every model request and every tool call returns or fails: a run that can
\* take a step eventually takes one.
FairSpec == Spec /\ WF_vars(Next)

(***************************************************************************)
(* execute_function_call on its own                                        *)
(***************************************************************************)

\* The tool names given to the invoker: those the model requests, the
\* declared tool the server does not register, and the empty name.
InvokerNames == ModelToolNames \cup {"get_stockpile_minimums", ""}

InitInvoker ==
    /\ AgentIdle
    /\ RunsIdle
    /\ HistoryIdle
    /\ CleanIdle
    /\ RegistryIdle
    /\ TimerIdle
    /\ SplitIdle
    /\ HandlerIdle
    /\ FetchIdle
    /\ ScanIdle
    /\ DbIdle
    /\ ProdIdle
    /\ CacheIdle
    /\ DeficitIdle
    /\ ex_pc = "call"
    /\ ex_name \in InvokerNames
    /\ ex_env \in ToolEnvs
    /\ ex_result = NoneResult

ExecuteCall ==
    /\ ex_pc = "call"
    /\ ex_result' = execute_function_call(ex_name, ex_env)
    /\ ex_pc' = "done"
    /\ UNCHANGED <<ex_name, ex_env>>

NextInvoker == ExecuteCall /\ UNCHANGED notInvokerVars

SpecInvoker == InitInvoker /\ [][NextInvoker]_vars

(***************************************************************************)
(* Two runs of process_with_ai that overlap, and the logger they share     *)
(***************************************************************************)

\* generate_request_id: "req-" and four hex digits of a fresh uuid; the two
\* runs are given different ids.
generate_request_id(r) == "req-" \o ToString(r)

\* _format_message: the prefix is the logger's request id when it is set.
FormatPrefix(rid) == IF Truthy(rid) THEN rid ELSE ""

\* A log call made by run r: the line carries whatever id the logger holds.
WriteLine(r, rid) == last_line' = Line(r, FormatPrefix(rid))

InitRuns ==
    /\ AgentIdle
    /\ InvokerIdle
    /\ HistoryIdle
    /\ CleanIdle
    /\ RegistryIdle
    /\ TimerIdle
    /\ SplitIdle
    /\ HandlerIdle
    /\ FetchIdle
    /\ ScanIdle
    /\ DbIdle
    /\ ProdIdle
    /\ CacheIdle
    /\ DeficitIdle
    /\ run_pc = [r \in Runs |-> "start"]
    /\ run_request_id = [r \in Runs |-> None]
    /\ run_iterations = [r \in Runs |-> 1]
    /\ run_more = [r \in Runs |-> FALSE]
    /\ logger_request_id = None
    /\ last_line = NoLine

\* Lines 52-124: the run sets its id on the logger, logs and sends the user
\* message.
RunStarts(r) ==
    /\ run_pc[r] = "start"
    /\ run_request_id' = [run_request_id EXCEPT ![r] = generate_request_id(r)]
    /\ logger_request_id' = generate_request_id(r)
    /\ WriteLine(r, generate_request_id(r))
    /\ run_pc' = [run_pc EXCEPT ![r] = "awaitModel"]
    /\ UNCHANGED <<run_iterations, run_more>>

\* Lines 125-172: a response with function calls arrives while iterations
\* are left; the run logs it and starts the first call.
RunGetsCalls(r) ==
    /\ run_pc[r] = "awaitModel"
    /\ LoopContinues(run_iterations[r])
    /\ WriteLine(r, logger_request_id)
    /\ run_pc' = [run_pc EXCEPT ![r] = "awaitTool"]
    /\ \E more \in BOOLEAN : run_more' = [run_more EXCEPT ![r] = more]
    /\ UNCHANGED <<run_request_id, run_iterations, logger_request_id>>

\* Lines 202-218: the run logs its summary, clears the logger's id and
\* returns.
RunReturns(r) ==
    /\ run_pc[r] = "awaitModel"
    /\ WriteLine(r, logger_request_id)
    /\ logger_request_id' = None
    /\ run_pc' = [run_pc EXCEPT ![r] = "returned"]
    /\ UNCHANGED <<run_request_id, run_iterations, run_more>>

\* chat.send_message_async or response.text raises: the run ends without
\* logging and without touching the logger's id.
RunRaises(r) ==
    /\ run_pc[r] = "awaitModel"
    /\ run_pc' = [run_pc EXCEPT ![r] = "raised"]
    /\ UNCHANGED <<run_request_id, run_iterations, run_more, logger_request_id,
                   last_line>>

\* Lines 175-199: a tool result arrives; the run logs it, then starts the
\* next call of the batch or sends the results to the model.
RunToolReturns(r) ==
    /\ run_pc[r] = "awaitTool"
    /\ WriteLine(r, logger_request_id)
    /\ IF run_more[r]
       THEN /\ \E more \in BOOLEAN : run_more' = [run_more EXCEPT ![r] = more]
            /\ UNCHANGED <<run_pc, run_iterations>>
       ELSE /\ run_iterations' = [run_iterations EXCEPT ![r] = @ + 1]
            /\ run_pc' = [run_pc EXCEPT ![r] = "awaitModel"]
            /\ UNCHANGED run_more
    /\ UNCHANGED <<run_request_id, logger_request_id>>

NextRuns ==
    \/ \E r \in Runs : RunStarts(r) /\ UNCHANGED notRunsVars
    \/ \E r \in Runs : RunGetsCalls(r) /\ UNCHANGED notRunsVars
    \/ \E r \in Runs : RunReturns(r) /\ UNCHANGED notRunsVars
    \/ \E r \in Runs : RunRaises(r) /\ UNCHANGED notRunsVars
    \/ \E r \in Runs : RunToolReturns(r) /\ UNCHANGED notRunsVars

SpecRuns == InitRuns /\ [][NextRuns]_vars

(***************************************************************************)
(* The history process_with_ai gives to model.start_chat                   *)
(***************************************************************************)

MaxHistory == 3

\* genai.protos.Content with one text part.
Content(role, text) == [role |-> role, text |-> text]

AckText == "Understood. I'm ready to help with regiment logistics."

\* The framing turn of the user (the dash of the source written as -).
FramingText ==
    "Here is the recent conversation for context. "
    \o "This is ONLY for understanding references like 'the first one' or 'yes'. "
    \o "The data in these messages may be stale - you MUST still call tools to get current data for every new question."

FramingAckText ==
    "Understood. I'll use this history only for conversational context and will always call tools for fresh data."

\* Python truthiness of an optional list.
ListTruthy(v) == ~v.isNone /\ Len(v.items) > 0

\* The prior turns as Content, roles and texts as given, in the given order.
PriorTurns(items) == [i \in 1..Len(items) |-> Content(items[i][1], items[i][2])]

\* A history that frames the prior turns even when there are none.
SeedHistory_always_framed(prompt, conv) ==
    << Content("user", "System instructions: " \o prompt),
       Content("model", AckText),
       Content("user", FramingText),
       Content("model", FramingAckText) >>
    \o PriorTurns(conv.items)

\* Lines 66-101: the list history.
SeedHistory(prompt, conv) ==
    LET base == << Content("user", "System instructions: " \o prompt),
                   Content("model", AckText) >>
    IN  IF ListTruthy(conv)
        THEN base
             \o << Content("user", FramingText), Content("model", FramingAckText) >>
             \o PriorTurns(conv.items)
        ELSE base

\* The (role, content) pairs a prior conversation is made of.
PriorItems == {"user", "model"} \X {"c1", "c2"}

\* The prior conversations process_with_ai is called with.
PriorConversations ==
    {NoHistory}
    \cup { HistoryList(items) :
              items \in UNION { [1..n -> PriorItems] : n \in 0..MaxHistory } }

InitHistory ==
    /\ AgentIdle
    /\ InvokerIdle
    /\ RunsIdle
    /\ CleanIdle
    /\ RegistryIdle
    /\ TimerIdle
    /\ SplitIdle
    /\ HandlerIdle
    /\ FetchIdle
    /\ ScanIdle
    /\ DbIdle
    /\ ProdIdle
    /\ CacheIdle
    /\ DeficitIdle
    /\ h_pc = "build"
    /\ system_prompt \in {"P", "Q"}
    /\ conversation_history \in PriorConversations
    /\ history = <<>>

\* Lines 63-111: build the prompt and the history and start the chat.
BuildHistory ==
    /\ h_pc = "build"
    /\ history' = SeedHistory(system_prompt, conversation_history)
    /\ h_pc' = "built"
    /\ UNCHANGED <<system_prompt, conversation_history>>

NextHistory == BuildHistory /\ UNCHANGED notHistoryVars

SpecHistory == InitHistory /\ [][NextHistory]_vars

(***************************************************************************)
(* strip_wrapping_code_blocks on its own                                   *)
(***************************************************************************)

MaxTokens == 7

\* What the texts are made of: a fence, a word character, a blank, a newline.
Tokens == {Fence, <<"a">>, <<" ">>, <<Newline>>}

RECURSIVE Flatten(_)
Flatten(ts) == IF ts = <<>> THEN <<>> ELSE Head(ts) \o Flatten(Tail(ts))

\* The texts given to strip_wrapping_code_blocks.
CleanTexts ==
    { Flatten(ts) : ts \in UNION { [1..n -> Tokens] : n \in 0..MaxTokens } }

InitClean ==
    /\ AgentIdle
    /\ InvokerIdle
    /\ RunsIdle
    /\ HistoryIdle
    /\ RegistryIdle
    /\ TimerIdle
    /\ SplitIdle
    /\ HandlerIdle
    /\ FetchIdle
    /\ ScanIdle
    /\ DbIdle
    /\ ProdIdle
    /\ CacheIdle
    /\ DeficitIdle
    /\ cl_pc = "first"
    /\ cl_text \in CleanTexts
    /\ cl_once = <<>>
    /\ cl_twice = <<>>

\* strip_wrapping_code_blocks(text).
CleanOnce ==
    /\ cl_pc = "first"
    /\ cl_once' = strip_wrapping_code_blocks(cl_text)
    /\ cl_pc' = "second"
    /\ UNCHANGED <<cl_text, cl_twice>>

\* strip_wrapping_code_blocks applied to its own result.
CleanTwice ==
    /\ cl_pc = "second"
    /\ cl_twice' = strip_wrapping_code_blocks(cl_once)
    /\ cl_pc' = "done"
    /\ UNCHANGED <<cl_text, cl_once>>

NextClean ==
    \/ CleanOnce /\ UNCHANGED notCleanVars
    \/ CleanTwice /\ UNCHANGED notCleanVars

SpecClean == InitClean /\ [][NextClean]_vars

(***************************************************************************)
(* The MCP server's registry: registration, list_tools, call_tool          *)
(***************************************************************************)

MaxRegistrations == 3

\* The names, descriptions, schemas and handlers tools are registered with.
RegNames == {"search_inventory", "list_stockpiles"}
RegDescriptions == {"d1", "d2"}
RegHandlers == {"h1", "h2"}

\* A parameter schema with one property, marked required, not required, or
\* without the mark.
ParamSchema(required) == [query |-> [required |-> required]]
RegSchemas == {ParamSchema("true"), ParamSchema("absent")}

\* The entry McpServer.tool stores.
ToolEntry(name, description, parameters, handler) ==
    [name |-> name, description |-> description, parameters |-> parameters,
     handler |-> handler]

HasTool(tools, name) == \E i \in 1..Len(tools) : tools[i].name = name

\* self._tools[name] = entry on a dict that keeps insertion order: a new key
\* is added at the end, an existing key keeps its place and gets the value.
McpServer_tool(tools, name, description, parameters, handler) ==
    LET entry == ToolEntry(name, description, parameters, handler)
    IN  IF HasTool(tools, name)
        THEN [i \in 1..Len(tools) |-> IF tools[i].name = name THEN entry ELSE tools[i]]
        ELSE Append(tools, entry)

\* McpServer.list_tools.
McpServer_list_tools(tools) ==
    [i \in 1..Len(tools) |->
        [name |-> tools[i].name,
         description |-> tools[i].description,
         inputSchema |->
            [type |-> "object",
             properties |-> tools[i].parameters,
             required |-> { k \in DOMAIN tools[i].parameters :
                              tools[i].parameters[k].required = "true" }]]]

\* McpServer.call_tool on the registry tools.
McpServer_call_tool_on(tools, name, h) ==
    IF ~HasTool(tools, name)
    THEN ErrorContent("Unknown tool: " \o name)
    ELSE IF h.raises THEN ErrorContent(h.exc) ELSE h.value

\* What the handlers of the registry do when called.
RegHandlerOutcomes ==
    { h \in HandlerOutcomes : h.raises \/ h.value.ftext = "str" }

\* The names call_tool is given: registered or not.
CallNames == RegNames \cup {"do_magic"}

InitRegistry ==
    /\ AgentIdle
    /\ InvokerIdle
    /\ RunsIdle
    /\ HistoryIdle
    /\ CleanIdle
    /\ TimerIdle
    /\ SplitIdle
    /\ HandlerIdle
    /\ FetchIdle
    /\ ScanIdle
    /\ DbIdle
    /\ ProdIdle
    /\ CacheIdle
    /\ DeficitIdle
    /\ reg_pc = "startup"
    /\ registry = <<>>
    /\ reg_count = 0
    /\ reg_op = NoOp
    /\ reg_raised = ""
    /\ reg_listing = <<>>
    /\ reg_answer = ErrorObject("")

\* One call of McpServer.tool made by a register_..._tools function.
RegisterTool ==
    /\ reg_pc = "startup"
    /\ reg_count < MaxRegistrations
    /\ \E n \in RegNames, d \in RegDescriptions, p \in RegSchemas, h \in RegHandlers :
        /\ registry' = McpServer_tool(registry, n, d, p, h)
        /\ reg_op' = ServerOp("tool", n)
    /\ reg_count' = reg_count + 1
    /\ reg_raised' = ""
    /\ UNCHANGED <<reg_pc, reg_listing, reg_answer>>

\* _register_tools returns: the server starts serving.
FinishStartup ==
    /\ reg_pc = "startup"
    /\ reg_pc' = "serving"
    /\ UNCHANGED <<registry, reg_count, reg_op, reg_raised, reg_listing, reg_answer>>

ListToolsOp ==
    /\ reg_pc = "serving"
    /\ reg_listing' = McpServer_list_tools(registry)
    /\ reg_op' = ServerOp("list_tools", "")
    /\ reg_raised' = ""
    /\ UNCHANGED <<reg_pc, registry, reg_count, reg_answer>>

\* A call_tool that drops a tool whose handler raised.
CallToolOp_dropping ==
    /\ reg_pc = "serving"
    /\ \E n \in CallNames, h \in RegHandlerOutcomes :
        /\ reg_answer' = McpServer_call_tool_on(registry, n, h)
        /\ reg_op' = ServerOp("call_tool", n)
        /\ registry' = IF h.raises
                       THEN SelectSeq(registry, LAMBDA e : e.name # n)
                       ELSE registry
    /\ reg_raised' = ""
    /\ UNCHANGED <<reg_pc, reg_count, reg_listing>>

CallToolOp ==
    /\ reg_pc = "serving"
    /\ \E n \in CallNames, h \in RegHandlerOutcomes :
        /\ reg_answer' = McpServer_call_tool_on(registry, n, h)
        /\ reg_op' = ServerOp("call_tool", n)
    /\ reg_raised' = ""
    /\ UNCHANGED <<reg_pc, registry, reg_count, reg_listing>>

NextRegistry ==
    \/ RegisterTool /\ UNCHANGED notRegistryVars
    \/ FinishStartup /\ UNCHANGED notRegistryVars
    \/ ListToolsOp /\ UNCHANGED notRegistryVars
    \/ CallToolOp /\ UNCHANGED notRegistryVars

SpecRegistry == InitRegistry /\ [][NextRegistry]_vars

(***************************************************************************)
(* The logger's timers, used by two overlapping runs                       *)
(***************************************************************************)

MaxClock == 2

\* BotLogger.time: self._timers[label] = time.perf_counter().
BotLogger_time(table, label, now) == [table EXCEPT ![label] = now]

\* A time_end that reads the start time and leaves it in the table.
BotLogger_time_end_peek(table, label, now) ==
    [ret |-> IF table[label] = Absent THEN 0 ELSE now - table[label],
     timers |-> table]

\* BotLogger.time_end: pop the label; 0 when it is not there, the elapsed
\* milliseconds otherwise.
BotLogger_time_end(table, label, now) ==
    [ret |-> IF table[label] = Absent THEN 0 ELSE now - table[label],
     timers |-> [table EXCEPT ![label] = Absent]]

\* At start no timer runs; the logger is idle otherwise.
InitTimers ==
    /\ AgentIdle
    /\ InvokerIdle
    /\ RunsIdle
    /\ HistoryIdle
    /\ CleanIdle
    /\ RegistryIdle
    /\ TimerIdle
    /\ SplitIdle
    /\ HandlerIdle
    /\ FetchIdle
    /\ ScanIdle
    /\ DbIdle
    /\ ProdIdle
    /\ CacheIdle
    /\ DeficitIdle

\* Time passes.
Tick ==
    /\ tm_clock < MaxClock
    /\ tm_clock' = tm_clock + 1
    /\ tm_op' = TimerOp("tick", 0, "")
    /\ UNCHANGED <<timers, tm_own, tm_ret, tm_expected>>

\* Run r calls logger.time(label).
TimeStart(r, label) ==
    /\ timers' = BotLogger_time(timers, label, tm_clock)
    /\ tm_own' = [tm_own EXCEPT ![r][label] = tm_clock]
    /\ tm_op' = TimerOp("time", r, label)
    /\ UNCHANGED <<tm_clock, tm_ret, tm_expected>>

\* Run r calls logger.time_end(label).
TimeEnd(r, label) ==
    /\ timers' = BotLogger_time_end(timers, label, tm_clock).timers
    /\ tm_ret' = BotLogger_time_end(timers, label, tm_clock).ret
    /\ tm_expected' = IF tm_own[r][label] = Absent THEN Absent
                      ELSE tm_clock - tm_own[r][label]
    /\ tm_own' = [tm_own EXCEPT ![r][label] = Absent]
    /\ tm_op' = TimerOp("time_end", r, label)
    /\ UNCHANGED tm_clock

NextTimers ==
    \/ Tick /\ UNCHANGED notTimerVars
    \/ \E r \in Runs, l \in TimerLabels : TimeStart(r, l) /\ UNCHANGED notTimerVars
    \/ \E r \in Runs, l \in TimerLabels : TimeEnd(r, l) /\ UNCHANGED notTimerVars

SpecTimers == InitTimers /\ [][NextTimers]_vars

(***************************************************************************)
(* split_message                                                           *)
(***************************************************************************)

MaxTextLen == 5
MaxChunkLen == 3

\* text.split("\n"): the lines of a text, one more than it has newlines.
RECURSIVE SplitLines(_)
SplitLines(text) ==
    IF \A i \in 1..Len(text) : text[i] # Newline
    THEN <<text>>
    ELSE LET k == CHOOSE i \in 1..Len(text) :
                      /\ text[i] = Newline
                      /\ \A j \in 1..(i - 1) : text[j] # Newline
         IN  <<SubSeq(text, 1, k - 1)>> \o SplitLines(SubSeq(text, k + 1, Len(text)))

\* Lines 197-199: cut pieces of max_length off a line while it is too long.
RECURSIVE CutLong(_, _, _)
CutLong(chunks, remaining, max_length) ==
    IF Len(remaining) > max_length
    THEN CutLong(Append(chunks, SubSeq(remaining, 1, max_length)),
                 SubSeq(remaining, max_length + 1, Len(remaining)),
                 max_length)
    ELSE [chunks |-> chunks, current_chunk |-> remaining]

\* A loop body that starts a new chunk without keeping the one in progress.
SplitStep_no_flush(chunks, current_chunk, line, max_length) ==
    IF Len(current_chunk) + Len(line) + 1 > max_length
    THEN IF Len(line) > max_length
         THEN CutLong(chunks, line, max_length)
         ELSE [chunks |-> chunks, current_chunk |-> line]
    ELSE [chunks |-> chunks,
          current_chunk |->
              current_chunk \o (IF current_chunk # <<>> THEN <<Newline>> ELSE <<>>) \o line]

\* Lines 190-204: the body of the loop over the lines.
SplitStep(chunks, current_chunk, line, max_length) ==
    IF Len(current_chunk) + Len(line) + 1 > max_length
    THEN LET flushed == IF current_chunk # <<>>
                        THEN Append(chunks, current_chunk) ELSE chunks
         IN  IF Len(line) > max_length
             THEN CutLong(flushed, line, max_length)
             ELSE [chunks |-> flushed, current_chunk |-> line]
    ELSE [chunks |-> chunks,
          current_chunk |->
              current_chunk \o (IF current_chunk # <<>> THEN <<Newline>> ELSE <<>>) \o line]

\* Lines 189-204: the loop over lines, from line number i on.
RECURSIVE SplitLoop(_, _, _, _, _)
SplitLoop(lines, i, chunks, current_chunk, max_length) ==
    IF i > Len(lines)
    THEN [chunks |-> chunks, current_chunk |-> current_chunk]
    ELSE LET s == SplitStep(chunks, current_chunk, lines[i], max_length)
         IN  SplitLoop(lines, i + 1, s.chunks, s.current_chunk, max_length)

split_message(text, max_length) ==
    LET end == SplitLoop(SplitLines(text), 1, <<>>, <<>>, max_length)
    IN  IF end.current_chunk # <<>>
        THEN Append(end.chunks, end.current_chunk)
        ELSE end.chunks

\* The texts given to split_message.
SplitTexts ==
    UNION { [1..n -> {"a", "b", Newline}] : n \in 0..MaxTextLen }

InitSplit ==
    /\ AgentIdle
    /\ InvokerIdle
    /\ RunsIdle
    /\ HistoryIdle
    /\ CleanIdle
    /\ RegistryIdle
    /\ TimerIdle
    /\ HandlerIdle
    /\ FetchIdle
    /\ ScanIdle
    /\ DbIdle
    /\ ProdIdle
    /\ CacheIdle
    /\ DeficitIdle
    /\ sp_pc = "split"
    /\ sp_text \in SplitTexts
    /\ sp_max \in 1..MaxChunkLen
    /\ sp_chunks = <<>>

SplitMessage ==
    /\ sp_pc = "split"
    /\ sp_chunks' = split_message(sp_text, sp_max)
    /\ sp_pc' = "done"
    /\ UNCHANGED <<sp_text, sp_max>>

NextSplit == SplitMessage /\ UNCHANGED notSplitVars

SpecSplit == InitSplit /\ [][NextSplit]_vars

(***************************************************************************)
(* handle_message                                                          *)
(***************************************************************************)

\* The length up to which a response is sent as one reply: 2000 in the
\* source, scaled down here.
ReplyLimit == 2

\* The fixed messages of handle_message.
HelpMessage ==
    "How can I help you? Ask me about inventory, operations, or production orders!"
ServerOnlyMessage == "I can only help with regiment data when used in a server."
ApologyMessage ==
    "Sorry, I encountered an error processing your request. Please try again."

\* A message sent to Discord: by message.reply or channel.send; one of the
\* fixed messages, or a text of the response.
Sent(via, fixed, text) == [via |-> via, fixed |-> fixed, text |-> text]

\* The messages handle_message is called with.
Messages ==
    { Message(b, a, d, m, e, g) : b \in BOOLEAN, a \in BOOLEAN, d \in BOOLEAN,
                                  m \in BOOLEAN, e \in BOOLEAN, g \in BOOLEAN }

\* What process_with_ai may do: raise one of the exceptions that leave it,
\* or return a text that is not empty.
AiOutcomes ==
    { AiRaised(e) : e \in {"ModelError", "ValueError", "TypeError"} }
    \cup { AiReturned(t) :
             t \in UNION { [1..n -> {"a", Newline}] : n \in 1..(ReplyLimit + 2) } }

\* Lines 74-91, 110-118: the message is ignored, answered with a fixed
\* message, or passed on.
Gate(m) ==
    IF m.author_bot \/ ~m.author_authorized \/ (~m.is_dm /\ ~m.is_mentioned)
    THEN "ignored"
    ELSE IF m.content_empty THEN "helped"
    ELSE IF ~m.has_guild /\ ~m.is_dm THEN "refused"
    ELSE "run"

InitHandler ==
    /\ AgentIdle
    /\ InvokerIdle
    /\ RunsIdle
    /\ HistoryIdle
    /\ CleanIdle
    /\ RegistryIdle
    /\ TimerIdle
    /\ SplitIdle
    /\ FetchIdle
    /\ ScanIdle
    /\ DbIdle
    /\ ProdIdle
    /\ CacheIdle
    /\ DeficitIdle
    /\ hm_pc = "gate"
    /\ hm_message \in Messages
    /\ hm_outcome \in AiOutcomes
    /\ hm_chunks = <<>>
    /\ hm_next = 1
    /\ hm_sent = <<>>
    /\ hm_propagated = ""

\* Lines 73-121: the gating, up to the call of process_with_ai.
HandleGate ==
    /\ hm_pc = "gate"
    /\ hm_pc' = Gate(hm_message)
    /\ hm_sent' =
          CASE Gate(hm_message) = "helped" -> <<Sent("reply", HelpMessage, <<>>)>>
            [] Gate(hm_message) = "refused" -> <<Sent("reply", ServerOnlyMessage, <<>>)>>
            [] OTHER -> <<>>
    /\ UNCHANGED <<hm_message, hm_outcome, hm_chunks, hm_next, hm_propagated>>

\* Lines 166-168: process_with_ai raises; the error is logged and the
\* apology is sent.
AiRaises ==
    /\ hm_pc = "run"
    /\ hm_outcome.raises
    /\ hm_sent' = Append(hm_sent, Sent("reply", ApologyMessage, <<>>))
    /\ hm_pc' = "done"
    /\ UNCHANGED <<hm_message, hm_outcome, hm_chunks, hm_next, hm_propagated>>

\* Lines 139-158: process_with_ai returns; a short response is sent as one
\* reply, a long one is split and its first chunk is sent as the reply.
AiReturns ==
    /\ hm_pc = "run"
    /\ ~hm_outcome.raises
    /\ LET response_text == hm_outcome.text
           chunks == split_message(response_text, ReplyLimit)
       IN  IF Len(response_text) <= ReplyLimit
           THEN /\ hm_sent' = Append(hm_sent, Sent("reply", "", response_text))
                /\ hm_pc' = "done"
                /\ UNCHANGED <<hm_chunks, hm_next>>
           ELSE /\ hm_chunks' = chunks
                /\ IF chunks = <<>>
                   THEN /\ hm_pc' = "done"
                        /\ UNCHANGED <<hm_sent, hm_next>>
                   ELSE /\ hm_sent' = Append(hm_sent, Sent("reply", "", chunks[1]))
                        /\ hm_next' = 2
                        /\ hm_pc' = IF Len(chunks) > 1 THEN "sending" ELSE "done"
    /\ UNCHANGED <<hm_message, hm_outcome, hm_propagated>>

\* Lines 157-161: the next chunk is sent with channel.send.
SendNextChunk ==
    /\ hm_pc = "sending"
    /\ hm_sent' = Append(hm_sent, Sent("send", "", hm_chunks[hm_next]))
    /\ hm_next' = hm_next + 1
    /\ hm_pc' = IF hm_next < Len(hm_chunks) THEN "sending" ELSE "done"
    /\ UNCHANGED <<hm_message, hm_outcome, hm_chunks, hm_propagated>>

NextHandler ==
    \/ HandleGate /\ UNCHANGED notHandlerVars
    \/ AiRaises /\ UNCHANGED notHandlerVars
    \/ AiReturns /\ UNCHANGED notHandlerVars
    \/ SendNextChunk /\ UNCHANGED notHandlerVars

SpecHandler == InitHandler /\ [][NextHandler]_vars

(***************************************************************************)
(* fetch_conversation_history                                              *)
(***************************************************************************)

MaxChannel == 3
MaxMessages == 2

\* A message of the channel: is it older than the cutoff, is it the bot's,
\* does it mention the bot, is its content empty once the mentions are
\* removed.
ChannelMessage(old, bot, mentions, empty) ==
    [old |-> old, author_bot |-> bot, mentions_bot |-> mentions,
     stripped_empty |-> empty]

\* A turn of the history: its role and its content, which is the content of
\* channel message number of, with the mentions removed or as it is.
HistoryTurn(role, of, stripped) == [role |-> role, of |-> of, stripped |-> stripped]

\* Lines 42-52: what message number i adds to the history.
Collected(hist, msg, i) ==
    IF msg.author_bot
    THEN Append(hist, HistoryTurn("model", i, FALSE))
    ELSE IF msg.mentions_bot /\ ~msg.stripped_empty
         THEN Append(hist, HistoryTurn("user", i, TRUE))
         ELSE hist

\* Lines 37-59: the loop over channel.history, from message number i on;
\* reading message number fail_at raises, which ends the loop.
RECURSIVE FetchLoop(_, _, _, _, _)
FetchLoop(channel, i, hist, fail_at, max_messages) ==
    IF i > Len(channel) \/ i = fail_at THEN hist
    ELSE IF channel[i].old THEN hist
    ELSE LET next == Collected(hist, channel[i], i)
         IN  IF next # hist /\ Len(next) >= max_messages
             THEN next
             ELSE FetchLoop(channel, i + 1, next, fail_at, max_messages)

\* history.reverse().
Reverse(s) == [i \in 1..Len(s) |-> s[Len(s) + 1 - i]]

\* A fetch that returns the turns as collected, newest first.
fetch_conversation_history_unreversed(channel, fail_at, max_messages) ==
    FetchLoop(channel, 1, <<>>, fail_at, max_messages)

fetch_conversation_history(channel, fail_at, max_messages) ==
    Reverse(FetchLoop(channel, 1, <<>>, fail_at, max_messages))

\* The channels: up to MaxChannel messages, newest first, so that the
\* messages older than the cutoff come last.
Channels ==
    { c \in UNION { [1..n -> { ChannelMessage(o, b, m, e) :
                                  o \in BOOLEAN, b \in BOOLEAN,
                                  m \in BOOLEAN, e \in BOOLEAN }] :
                    n \in 0..MaxChannel } :
        /\ \A i, j \in 1..Len(c) : (i < j /\ c[i].old) => c[j].old
        /\ \A i \in 1..Len(c) : c[i].author_bot => c[i].mentions_bot = FALSE }

InitFetch ==
    /\ AgentIdle
    /\ InvokerIdle
    /\ RunsIdle
    /\ HistoryIdle
    /\ CleanIdle
    /\ RegistryIdle
    /\ TimerIdle
    /\ SplitIdle
    /\ HandlerIdle
    /\ ScanIdle
    /\ DbIdle
    /\ ProdIdle
    /\ CacheIdle
    /\ DeficitIdle
    /\ fc_pc = "fetch"
    /\ fc_channel \in Channels
    /\ fc_fail_at \in 0..MaxChannel
    /\ fc_max \in 1..MaxMessages
    /\ fc_result = <<>>

FetchHistory ==
    /\ fc_pc = "fetch"
    /\ fc_result' = fetch_conversation_history(fc_channel, fc_fail_at, fc_max)
    /\ fc_pc' = "done"
    /\ UNCHANGED <<fc_channel, fc_fail_at, fc_max>>

NextFetch == FetchHistory /\ UNCHANGED notFetchVars

SpecFetch == InitFetch /\ [][NextFetch]_vars

(***************************************************************************)
(* ScanConfirmView: the Confirm and Cancel buttons under a scan preview    *)
(***************************************************************************)

\* The user who uploaded the screenshot, and everybody who can click.
discord_user_id == "uploader"
ScanUsers == {"uploader", "other"}
ScanButtons == {"confirm", "cancel"}

\* Lines 124-131: run before the callback of a button; the callback runs only
\* when it answers TRUE.
interaction_check_anyone(user) == TRUE

interaction_check(user) == user = discord_user_id

\* Lines 283-284.
remove_buttons == FALSE

\* A callback of confirm is between two of its awaits.
ConfirmInFlight ==
    \E i \in Clicks : sv_clicks[i].pc \in {"defer", "resolve", "stockpile", "save"}

\* Lines 377-388: handle_scanner_message has shown the preview with the view.
InitScan ==
    /\ AgentIdle
    /\ InvokerIdle
    /\ RunsIdle
    /\ HistoryIdle
    /\ CleanIdle
    /\ RegistryIdle
    /\ TimerIdle
    /\ SplitIdle
    /\ HandlerIdle
    /\ FetchIdle
    /\ DbIdle
    /\ ProdIdle
    /\ CacheIdle
    /\ DeficitIdle
    /\ sv_buttons = TRUE
    /\ sv_embed = "Stockpile Scan"
    /\ sv_finished = FALSE
    /\ sv_clicks = [i \in Clicks |-> NoClick]
    /\ sv_log = <<>>
    /\ sv_ephemeral = 0

\* A user clicks a button the view still holds.  interaction_check runs
\* first (lines 124-131); when it passes, the callback starts: confirm runs
\* to its first await (line 135), cancel runs whole (lines 261-269).
Dispatch(i, user, button) ==
    /\ sv_clicks[i].pc = "none"
    /\ i > 1 => sv_clicks[i - 1].pc # "none"
    /\ sv_buttons
    /\ ~sv_finished
    /\ IF ~interaction_check(user)
       THEN /\ sv_ephemeral' = sv_ephemeral + 1
            /\ sv_clicks' = [sv_clicks EXCEPT ![i] = Click(user, button, "rejected")]
            /\ UNCHANGED <<sv_buttons, sv_embed, sv_log>>
       ELSE IF button = "confirm"
       THEN /\ sv_clicks' = [sv_clicks EXCEPT ![i] = Click(user, button, "defer")]
            /\ UNCHANGED <<sv_buttons, sv_embed, sv_log, sv_ephemeral>>
       ELSE /\ sv_buttons' = remove_buttons
            /\ sv_embed' = "Scan Cancelled"
            /\ sv_log' = Append(sv_log, "cancel")
            /\ sv_clicks' = [sv_clicks EXCEPT ![i] = Click(user, button, "done")]
            /\ UNCHANGED sv_ephemeral
    /\ UNCHANGED sv_finished

\* Lines 135-141: the defer has been sent, confirm asks for the user.
ConfirmDeferred(i) ==
    /\ sv_clicks[i].pc = "defer"
    /\ sv_log' = Append(sv_log, "resolve_discord_user")
    /\ sv_clicks' = [sv_clicks EXCEPT ![i].pc = "resolve"]
    /\ UNCHANGED <<sv_buttons, sv_embed, sv_finished, sv_ephemeral>>

\* Lines 142-161: resolve_discord_user answered; an error ends confirm with
\* Scan Failed, otherwise confirm asks for the stockpile's inventory.
ResolveReturns(i) ==
    /\ sv_clicks[i].pc = "resolve"
    /\ \E error \in BOOLEAN :
        IF error
        THEN /\ sv_buttons' = remove_buttons
             /\ sv_embed' = "Scan Failed"
             /\ sv_clicks' = [sv_clicks EXCEPT ![i].pc = "done"]
             /\ UNCHANGED sv_log
        ELSE /\ sv_log' = Append(sv_log, "get_stockpile")
             /\ sv_clicks' = [sv_clicks EXCEPT ![i].pc = "stockpile"]
             /\ UNCHANGED <<sv_buttons, sv_embed>>
    /\ UNCHANGED <<sv_finished, sv_ephemeral>>

\* Lines 162-177: get_stockpile answered, confirm calls save_scan_results.
StockpileReturns(i) ==
    /\ sv_clicks[i].pc = "stockpile"
    /\ sv_log' = Append(sv_log, "save_scan_results")
    /\ sv_clicks' = [sv_clicks EXCEPT ![i].pc = "save"]
    /\ UNCHANGED <<sv_buttons, sv_embed, sv_finished, sv_ephemeral>>

\* Lines 178-259: save_scan_results answered; confirm removes the buttons
\* and shows Save Failed or Scan Saved.
SaveReturns(i) ==
    /\ sv_clicks[i].pc = "save"
    /\ \E error \in BOOLEAN :
        sv_embed' = IF error THEN "Save Failed" ELSE "Scan Saved"
    /\ sv_buttons' = remove_buttons
    /\ sv_clicks' = [sv_clicks EXCEPT ![i].pc = "done"]
    /\ UNCHANGED <<sv_log, sv_finished, sv_ephemeral>>

\* Lines 271-281: nobody has interacted for 300 seconds (line 114).  The
\* edit of the message may fail, which leaves the embed as it was.
Timeout ==
    /\ ~sv_finished
    /\ ~ConfirmInFlight
    /\ sv_finished' = TRUE
    /\ sv_buttons' = remove_buttons
    /\ sv_embed' \in {"Scan Expired", sv_embed}
    /\ sv_log' = Append(sv_log, "on_timeout")
    /\ UNCHANGED <<sv_clicks, sv_ephemeral>>

NextScan ==
    \/ (\E i \in Clicks, user \in ScanUsers, button \in ScanButtons :
            Dispatch(i, user, button)) /\ UNCHANGED notScanVars
    \/ (\E i \in Clicks : ConfirmDeferred(i)) /\ UNCHANGED notScanVars
    \/ (\E i \in Clicks : ResolveReturns(i)) /\ UNCHANGED notScanVars
    \/ (\E i \in Clicks : StockpileReturns(i)) /\ UNCHANGED notScanVars
    \/ (\E i \in Clicks : SaveReturns(i)) /\ UNCHANGED notScanVars
    \/ Timeout /\ UNCHANGED notScanVars

SpecScan == InitScan /\ [][NextScan]_vars

(***************************************************************************)
(* refresh_stockpile and save_scan_results on the stockpile tables          *)
(***************************************************************************)

MaxDbCalls == 3

RegimentIds == {"r1", "r2"}
\* s1 is a stockpile of r1, s2 one of r2, s3 is no stockpile.
StockpileIds == {"s1", "s2", "s3"}
DbUsers == {"u1"}

\* An item of a scan, and the lists of items a scan may carry (item codes
\* are distinct within one scan).
ScanItem(code, quantity) == [itemCode |-> code, quantity |-> quantity]
ScanItemLists ==
    { <<>>, <<ScanItem("bmat", 1)>>, <<ScanItem("rmat", 2)>>,
      <<ScanItem("bmat", 2), ScanItem("rmat", 1)>> }

\* A Stockpile row (stockpile.py 26-42) with the StockpileItem rows that
\* refer to it; lastRefreshedAt 0 is a stockpile never refreshed.
StockpileRow(regimentId, refreshed, updated, items) ==
    [regimentId |-> regimentId, lastRefreshedAt |-> refreshed,
     updatedAt |-> updated, items |-> items]

\* select(Stockpile).where(Stockpile.id == stockpileId)
\* .where(Stockpile.regimentId == regimentId)
\* followed by scalar(): is there such a row.
FindStockpile_by_id_only(stockpiles, stockpileId, regimentId) ==
    stockpileId \in DOMAIN stockpiles

FindStockpile(stockpiles, stockpileId, regimentId) ==
    /\ stockpileId \in DOMAIN stockpiles
    /\ stockpiles[stockpileId].regimentId = regimentId

InitDb ==
    /\ AgentIdle
    /\ InvokerIdle
    /\ RunsIdle
    /\ HistoryIdle
    /\ CleanIdle
    /\ RegistryIdle
    /\ TimerIdle
    /\ SplitIdle
    /\ HandlerIdle
    /\ FetchIdle
    /\ ScanIdle
    /\ ProdIdle
    /\ CacheIdle
    /\ DeficitIdle
    /\ db_stockpiles = [s \in {"s1", "s2"} |->
                           StockpileRow(IF s = "s1" THEN "r1" ELSE "r2", 0, 0,
                                        <<ScanItem("bmat", 1)>>)]
    /\ db_scans = <<>>
    /\ db_refreshes = <<>>
    /\ db_now = 1
    /\ db_call = NoDbCall
    /\ db_result = None

\* stockpiles.py 246-296.  The update of lastRefreshedAt also sets
\* updatedAt (onupdate, stockpile.py 42).
refresh_stockpile(regimentId, stockpileId, userId) ==
    /\ db_call.n < MaxDbCalls
    /\ db_call' = DbCall(db_call.n + 1, "refresh_stockpile", regimentId,
                         stockpileId, userId, <<>>)
    /\ db_now' = db_now + 1
    /\ IF ~FindStockpile(db_stockpiles, stockpileId, regimentId)
       THEN /\ db_result' = ErrorContent("Stockpile not found or does not belong to this regiment")
            /\ UNCHANGED <<db_stockpiles, db_scans, db_refreshes>>
       ELSE /\ db_stockpiles' = [db_stockpiles EXCEPT
                                    ![stockpileId].lastRefreshedAt = db_now,
                                    ![stockpileId].updatedAt = db_now]
            /\ db_refreshes' = Append(db_refreshes,
                                      [stockpileId |-> stockpileId,
                                       refreshedById |-> userId])
            /\ db_result' = TextContent("success")
            /\ UNCHANGED db_scans

\* scanner.py 165-254.
save_scan_results(regimentId, userId, stockpileId, items) ==
    /\ db_call.n < MaxDbCalls
    /\ db_call' = DbCall(db_call.n + 1, "save_scan_results", regimentId,
                         stockpileId, userId, items)
    /\ db_now' = db_now + 1
    /\ IF ~FindStockpile(db_stockpiles, stockpileId, regimentId)
       THEN /\ db_result' = ErrorContent("Stockpile not found")
            /\ UNCHANGED <<db_stockpiles, db_scans, db_refreshes>>
       ELSE /\ db_scans' = Append(db_scans,
                                  [stockpileId |-> stockpileId,
                                   scannedById |-> userId,
                                   itemCount |-> Len(items),
                                   items |-> items])
            /\ db_stockpiles' = [db_stockpiles EXCEPT
                                    ![stockpileId].items = items,
                                    ![stockpileId].updatedAt = db_now]
            /\ db_result' = TextContent("success")
            /\ UNCHANGED db_refreshes

NextDb ==
    \/ (\E r \in RegimentIds, s \in StockpileIds, u \in DbUsers :
            refresh_stockpile(r, s, u)) /\ UNCHANGED notDbVars
    \/ (\E r \in RegimentIds, s \in StockpileIds, u \in DbUsers,
           items \in ScanItemLists :
            save_scan_results(r, u, s, items)) /\ UNCHANGED notDbVars

SpecDb == InitDb /\ [][NextDb]_vars

(***************************************************************************)
(* update_production_progress on one production order                      *)
(***************************************************************************)

MaxQuantity == 2
MaxProdCalls == 1

\* db/models/production.py 18-26.
ProductionOrderStatus ==
    {"PENDING", "IN_PROGRESS", "READY_FOR_PICKUP", "COMPLETED", "CANCELLED",
     "FULFILLED"}

\* The status attribute of a loaded order is a member of the enum (the
\* column is Enum(ProductionOrderStatus), production.py 39-42); the handler
\* assigns it a plain str.
EnumMember(name) == [isEnum |-> TRUE, name |-> name]
PlainStr(name) == [isEnum |-> FALSE, name |-> name]

\* Python's str(): of a member of a plain enum.Enum it is the class name, a
\* dot and the member's name; of a str it is the str.
PyStr(status) ==
    IF status.isEnum THEN "ProductionOrderStatus." \o status.name
    ELSE status.name

ProductionOrderItem(code, required, produced) ==
    [itemCode |-> code, quantityRequired |-> required,
     quantityProduced |-> produced]

ProductionItemCodes == {"bmat", "rmat"}

\* The orders the table may hold: no item, one item or two.
OrderItemLists ==
    {<<>>}
    \cup { <<ProductionOrderItem("bmat", r, 0)>> : r \in 1..MaxQuantity }
    \cup { <<ProductionOrderItem("bmat", r1, 0), ProductionOrderItem("rmat", r2, 0)>> :
             r1 \in 1..MaxQuantity, r2 \in 1..MaxQuantity }

\* The items argument: one or two updates, of an item of the order or not.
ProgressUpdate(code, produced) == [itemCode |-> code, quantityProduced |-> produced]
ProgressUpdates ==
    { ProgressUpdate(c, q) : c \in ProductionItemCodes \cup {"other"},
                             q \in 0..MaxQuantity }
ProgressUpdateLists ==
    { <<u>> : u \in ProgressUpdates }
    \cup { <<u1, u2>> : u1 \in ProgressUpdates, u2 \in ProgressUpdates }

\* Lines 441-449: the first item of the order with the code gets the new
\* quantity.
ApplyUpdate(items, update) ==
    [k \in 1..Len(items) |->
        IF /\ items[k].itemCode = update.itemCode
           /\ \A j \in 1..(k - 1) : items[j].itemCode # update.itemCode
        THEN [items[k] EXCEPT !.quantityProduced = update.quantityProduced]
        ELSE items[k]]

\* Lines 446-461: the contribution an update records, if any.
Contribution(items, update) ==
    LET found == { k \in 1..Len(items) : items[k].itemCode = update.itemCode }
    IN  IF found = {} THEN <<>>
        ELSE LET k == CHOOSE x \in found : \A y \in found : x <= y
                 delta == update.quantityProduced - items[k].quantityProduced
             IN  IF delta > 0 THEN <<delta>> ELSE <<>>

\* Lines 437-461: the loop over the updates.
RECURSIVE ApplyUpdates(_, _)
ApplyUpdates(items, updates) ==
    IF updates = <<>> THEN items
    ELSE ApplyUpdates(ApplyUpdate(items, Head(updates)), Tail(updates))

RECURSIVE Contributions(_, _)
Contributions(items, updates) ==
    IF updates = <<>> THEN <<>>
    ELSE Contribution(items, Head(updates))
         \o Contributions(ApplyUpdate(items, Head(updates)), Tail(updates))

\* Lines 466-469.
all_complete(items) ==
    \A k \in 1..Len(items) : items[k].quantityProduced >= items[k].quantityRequired

\* Lines 470-473.
any_started(items) ==
    \E k \in 1..Len(items) : items[k].quantityProduced > 0

\* Lines 475-480: the status the order has at the commit, given the status
\* attribute the order was loaded with.
NewStatus(status, isMpf, items) ==
    IF all_complete(items) /\ ~isMpf THEN PlainStr("COMPLETED")
    ELSE IF any_started(items) /\ PyStr(status) = "PENDING"
         THEN PlainStr("IN_PROGRESS")
         ELSE status

InitProd ==
    /\ AgentIdle
    /\ InvokerIdle
    /\ RunsIdle
    /\ HistoryIdle
    /\ CleanIdle
    /\ RegistryIdle
    /\ TimerIdle
    /\ SplitIdle
    /\ HandlerIdle
    /\ FetchIdle
    /\ ScanIdle
    /\ DbIdle
    /\ CacheIdle
    /\ DeficitIdle
    /\ po_status \in ProductionOrderStatus
    /\ po_isMpf \in BOOLEAN
    /\ po_items \in OrderItemLists
    /\ po_contributions = <<>>
    /\ po_calls = 0

\* Lines 411-482 for an order that exists: the order is loaded, the updates
\* are applied and the status is set and committed.
update_production_progress(updates) ==
    /\ po_calls < MaxProdCalls
    /\ LET order_items == ApplyUpdates(po_items, updates)
       IN  /\ po_items' = order_items
           /\ po_contributions' = po_contributions \o Contributions(po_items, updates)
           /\ po_status' = NewStatus(EnumMember(po_status), po_isMpf, order_items).name
    /\ po_calls' = po_calls + 1
    /\ UNCHANGED po_isMpf

NextProd ==
    (\E updates \in ProgressUpdateLists : update_production_progress(updates))
        /\ UNCHANGED notProdVars

SpecProd == InitProd /\ [][NextProd]_vars

(***************************************************************************)
(* _get_scanner_channel_id and its cache                                   *)
(***************************************************************************)

\* _CACHE_TTL (300 seconds), in ticks of the model's clock.
CacheTtl == 2
MaxNow == 3

Guilds == {"g1", "g2"}

\* Line 13: an entry of the cache, and the absence of one.
CacheEntry(channel_id, expires_at) ==
    [channel_id |-> channel_id, expires_at |-> expires_at]
NoCacheEntry == CacheEntry(None, -1)
Cached(cache, guild) == cache[guild] # NoCacheEntry

\* What get_scanner_channel may answer: an error, or a JSON text with the
\* channel id, which may be null.
ScannerChannelIds == {"c1", "c2", None}
ScannerResults ==
    { [hasError |-> e, scannerChannelId |-> c] :
        e \in BOOLEAN, c \in ScannerChannelIds }

\* Lines 17-24 and 36-37: _parse_mcp_result(result).get("scannerChannelId").
ParsedChannelId(result) ==
    IF result.hasError THEN None ELSE result.scannerChannelId

\* Line 31: the entry is there and has not expired.
CacheValid_inclusive(cache, guild, now) ==
    Cached(cache, guild) /\ cache[guild].expires_at >= now

CacheValid(cache, guild, now) ==
    Cached(cache, guild) /\ cache[guild].expires_at > now

InitCache ==
    /\ AgentIdle
    /\ InvokerIdle
    /\ RunsIdle
    /\ HistoryIdle
    /\ CleanIdle
    /\ RegistryIdle
    /\ TimerIdle
    /\ SplitIdle
    /\ HandlerIdle
    /\ FetchIdle
    /\ ScanIdle
    /\ DbIdle
    /\ ProdIdle
    /\ DeficitIdle
    /\ sc_cache = [g \in Guilds |-> NoCacheEntry]
    /\ sc_now = 0
    /\ sc_calls = [c \in CacheCalls |-> NoCacheCall]
    /\ sc_fetches = <<>>

\* Time passes.
CacheTick ==
    /\ sc_now < MaxNow
    /\ sc_now' = sc_now + 1
    /\ UNCHANGED <<sc_cache, sc_calls, sc_fetches>>

\* Lines 29-35: the call reads the time and the cache; it returns the
\* cached id, or calls get_scanner_channel and waits.
GetChannelStarts(c, guild) ==
    /\ sc_calls[c].pc = "none"
    /\ c > 1 => sc_calls[c - 1].pc # "none"
    /\ IF CacheValid(sc_cache, guild, sc_now)
       THEN /\ sc_calls' = [sc_calls EXCEPT ![c] =
                               CacheCall(guild, sc_now, "returned",
                                         sc_cache[guild].channel_id, 0)]
            /\ UNCHANGED sc_fetches
       ELSE /\ sc_calls' = [sc_calls EXCEPT ![c] =
                               CacheCall(guild, sc_now, "fetching", None, 1)]
            /\ sc_fetches' = Append(sc_fetches, guild)
    /\ UNCHANGED <<sc_cache, sc_now>>

\* Lines 35-43: the answer arrives, the call stores it and returns it.
GetChannelFetched(c, result) ==
    /\ sc_calls[c].pc = "fetching"
    /\ LET channel_id == ParsedChannelId(result)
       IN  /\ sc_cache' = [sc_cache EXCEPT ![sc_calls[c].guild] =
                              CacheEntry(channel_id, sc_calls[c].now + CacheTtl)]
           /\ sc_calls' = [sc_calls EXCEPT ![c].pc = "returned",
                                           ![c].ret = channel_id]
    /\ UNCHANGED <<sc_now, sc_fetches>>

NextCache ==
    \/ CacheTick /\ UNCHANGED notCacheVars
    \/ (\E c \in CacheCalls, g \in Guilds : GetChannelStarts(c, g))
           /\ UNCHANGED notCacheVars
    \/ (\E c \in CacheCalls, r \in ScannerResults : GetChannelFetched(c, r))
           /\ UNCHANGED notCacheVars

SpecCache == InitCache /\ [][NextCache]_vars

(***************************************************************************)
(* get_operation_deficit: requirements against the inventory               *)
(***************************************************************************)

MaxRequired == 2
MaxAvailable == 3
MaxPriority == 1

DeficitItemCodes == {"bmat", "rmat"}

\* db/models/operation.py 69-78.
OperationRequirement(code, quantity, priority) ==
    [itemCode |-> code, quantity |-> quantity, priority |-> priority]

\* The requirements of an operation: at most one per item code
\* (operation.py 83-87).
RequirementLists ==
    LET R(c) == { OperationRequirement(c, q, p) :
                    q \in 0..MaxRequired, p \in 0..MaxPriority }
    IN  {<<>>}
        \cup { <<r>> : r \in R("bmat") \cup R("rmat") }
        \cup { <<r1, r2>> : r1 \in R("bmat"), r2 \in R("rmat") }
        \cup { <<r2, r1>> : r1 \in R("bmat"), r2 \in R("rmat") }

\* Lines 223-233: the totals of the items some stockpile of the regiment
\* holds; an item no stockpile holds has no key.
InventoryMaps ==
    UNION { [codes -> 0..MaxAvailable] : codes \in SUBSET DeficitItemCodes }

\* Python's max, min and round (to the nearest integer, a half to the even
\* one) of the quotient num / den of two integers, den > 0, num >= 0.  The
\* code rounds the float (available / quantity) * 100, which is this value
\* for the quantities used here (the two first differ at 23 / 40).
PyMax(a, b) == IF a >= b THEN a ELSE b
PyMin(a, b) == IF a <= b THEN a ELSE b
PyRound(num, den) ==
    LET q == num \div den
        r == num % den
    IN  IF 2 * r < den THEN q
        ELSE IF 2 * r > den THEN q + 1
        ELSE IF q % 2 = 0 THEN q ELSE q + 1

\* sorted() and list.sort(): a stable sort by an integer key.
\* key[i] is the key of s[i].
StableSort(s, key) ==
    LET pos(i) == 1 + Cardinality({ j \in 1..Len(s) :
                        \/ key[j] < key[i]
                        \/ key[j] = key[i] /\ j < i })
    IN  [p \in 1..Len(s) |-> s[CHOOSE i \in 1..Len(s) : pos(i) = p]]

\* sum() of a sequence of integers.
RECURSIVE SumOver(_)
SumOver(s) == IF s = <<>> THEN 0 ELSE Head(s) + SumOver(Tail(s))

\* Lines 239-264: the entry of one requirement.
DeficitEntry(req, inventory_map) ==
    LET available == IF req.itemCode \in DOMAIN inventory_map
                     THEN inventory_map[req.itemCode] ELSE 0
        deficit == PyMax(0, req.quantity - available)
        fulfillment_percent ==
            IF req.quantity > 0
            THEN PyMin(100, PyRound(available * 100, req.quantity))
            ELSE 100
        status == IF deficit = 0 THEN "fulfilled"
                  ELSE IF fulfillment_percent >= 50 THEN "partial"
                  ELSE "critical"
    IN  [itemCode |-> req.itemCode, required |-> req.quantity,
         available |-> available, deficit |-> deficit,
         fulfillmentPercent |-> fulfillment_percent,
         priority |-> req.priority, status |-> status]

\* Line 267.
status_order(status) ==
    IF status = "critical" THEN 0 ELSE IF status = "partial" THEN 1 ELSE 2

\* Lines 235-268: the entries, sorted by priority and then by status.
DeficitAnalysis(requirements, inventory_map) ==
    LET by_priority ==
            StableSort(requirements,
                       [k \in 1..Len(requirements) |-> 0 - requirements[k].priority])
        entries == [k \in 1..Len(by_priority) |->
                       DeficitEntry(by_priority[k], inventory_map)]
    IN  StableSort(entries,
                   [k \in 1..Len(entries) |->
                       status_order(entries[k].status) * (MaxPriority + 1)
                       + (MaxPriority - entries[k].priority)])

\* Line 271.
TotalAvailable_uncapped(items) ==
    SumOver([k \in 1..Len(items) |-> items[k].available])

TotalAvailable(items) ==
    SumOver([k \in 1..Len(items) |->
                PyMin(items[k].available, items[k].required)])

\* Lines 270-297.
SummaryOf(items) ==
    LET total_required == SumOver([k \in 1..Len(items) |-> items[k].required])
        total_available == TotalAvailable(items)
        Count(status) ==
            SumOver([k \in 1..Len(items) |->
                        IF items[k].status = status THEN 1 ELSE 0])
    IN  DeficitSummary(
            total_required, total_available,
            SumOver([k \in 1..Len(items) |-> items[k].deficit]),
            IF total_required > 0
            THEN PyRound(total_available * 100, total_required) ELSE 100,
            Count("critical"), Count("partial"), Count("fulfilled"))

InitDeficit ==
    /\ AgentIdle
    /\ InvokerIdle
    /\ RunsIdle
    /\ HistoryIdle
    /\ CleanIdle
    /\ RegistryIdle
    /\ TimerIdle
    /\ SplitIdle
    /\ HandlerIdle
    /\ FetchIdle
    /\ ScanIdle
    /\ DbIdle
    /\ ProdIdle
    /\ CacheIdle
    /\ od_pc = "compute"
    /\ od_requirements \in RequirementLists
    /\ od_inventory \in InventoryMaps
    /\ od_items = <<>>
    /\ od_summary = NoSummary

\* Lines 195-304 for an operation that exists.
get_operation_deficit ==
    /\ od_pc = "compute"
    /\ od_items' = DeficitAnalysis(od_requirements, od_inventory)
    /\ od_summary' = SummaryOf(DeficitAnalysis(od_requirements, od_inventory))
    /\ od_pc' = "done"
    /\ UNCHANGED <<od_requirements, od_inventory>>

NextDeficit == get_operation_deficit /\ UNCHANGED notDeficitVars

SpecDeficit == InitDeficit /\ [][NextDeficit]_vars

(***************************************************************************)
(* Properties of the orchestration loop                                    *)
(***************************************************************************)

Ended == pc \in {"returned", "raised"}

\* C1: one run of process_with_ai sends at most max_iterations requests to
\* the model, the first send of the user message included.
C1_AtMostMaxIterationsRequests == requests <= max_iterations

\* C2: whenever process_with_ai returns, the returned text is not empty: it
\* is the cleaned text of the final response when that is not empty, and
\* the fallback message otherwise.
C2_ReturnsNonEmptyText ==
    pc = "returned" =>
        LET cleaned == strip_wrapping_code_blocks(
                           IF response.hasText THEN response.text ELSE <<>>)
        IN  /\ retval # <<>>
            /\ cleaned # <<>> => retval = cleaned
            /\ cleaned = <<>> => retval = FallbackMessage

\* A run returned the fallback message for a response whose text was only
\* a pair of fences.
C2_Witness ==
    /\ pc = "returned"
    /\ response.text = Fence \o Fence
    /\ retval = FallbackMessage

\* C3: a run that ends at the iteration ceiling, its last response still
\* asking for tools, ends by returning text and not by raising.
C3_CeilingReturnsText ==
    (Ended /\ ~LoopContinues(iterations) /\ response.calls # <<>>
        /\ exc # "ModelError")
    => pc = "returned"

\* C4: the iteration counter stays between 1 and max_iterations.
C4_IterationInRange == 1 <= iterations /\ iterations <= max_iterations

\* C5: every run ends, by returning or by raising, whatever the model asks.
C5_RunTerminates == <>Ended

\* A run returned after the model had asked for tools in every response up
\* to the ceiling.
C5_Witness ==
    /\ pc = "returned"
    /\ ~LoopContinues(iterations)
    /\ response.calls # <<>>

\* C6: a follow-up turn on its way to the model carries one result per
\* function call of the response it answers, with the same names in the
\* same positions.
C6_FollowUpAnswersWholeBatch ==
    (pc = "awaitModel" /\ ~outbound.user) =>
        /\ Len(outbound.parts) = Len(response.calls)
        /\ \A i \in 1..Len(response.calls) :
               outbound.parts[i].name = response.calls[i].name

\* A follow-up with two results answers a response with two calls.
C6_Witness ==
    /\ pc = "awaitModel"
    /\ ~outbound.user
    /\ Len(response.calls) = 2
    /\ Len(outbound.parts) = 2

\* The underlying call failed: no answer of the server arrived, the server
\* refused the request, the tool is not registered, or its handler raised.
C7_Failed ==
    \/ ex_env.net # "delivered"
    \/ ~ex_env.authorized
    \/ ex_name \notin RegisteredTools
    \/ ex_env.handler.raises

\* C7: execute_function_call returns a str whatever the underlying call
\* does and whatever the shape of the response, and a str encoding an
\* object with an "error" member when the call failed.

C7_AlwaysReturnsString ==
    ex_pc = "done" =>
        /\ ex_result.ty = "str"
        /\ C7_Failed => ex_result.obj = "error"

AllUnregistered(calls) ==
    \A i \in 1..Len(calls) : calls[i].name \notin RegisteredTools

C9_ModelArgumentsKept ==
    pc = "awaitTool" =>
        \A k \in DOMAIN function_calls[idx].args :
            k \in DOMAIN args /\ args[k] = function_calls[idx].args[k]

\* A call is in flight with the model's regimentId and userId while the
\* context holds other values for both.
C9_Witness ==
    /\ pc = "awaitTool"
    /\ regiment_id = "Y"
    /\ user_id = "U"
    /\ function_calls[idx].args = Bag({"regimentId", "userId"})
    /\ args = Bag({"regimentId", "userId"})

\* The value the context holds for a contextual key.
ContextValue(k) == IF k = "regimentId" THEN regiment_id ELSE user_id

\* The keys of the call in flight that the model did not give.
InjectedNow == DOMAIN args \ DOMAIN function_calls[idx].args

\* C10 as stated: a key is injected into a call of a declared tool only if
\* the tool's schema declares it.
C10_InjectedOnlyIfDeclared ==
    (pc = "awaitTool"
        /\ function_calls[idx].name \in DOMAIN FUNCTION_DECLARATIONS)
    => InjectedNow \subseteq DeclaredParams(function_calls[idx].name)

\* C10: a key is injected only if it is regimentId or userId, the context
\* holds a value for it, and the model did not give it; the injected value
\* is the context's.
C10_InjectedOnlyIfAvailable ==
    pc = "awaitTool" =>
        \A k \in InjectedNow :
            /\ k \in {"regimentId", "userId"}
            /\ ContextValue(k) \notin {None, ""}
            /\ args[k] = ContextValue(k)

\* search_inventory, whose schema has no userId, is called with the
\* context's userId.
C10_Witness ==
    /\ pc = "awaitTool"
    /\ function_calls[idx].name = "search_inventory"
    /\ "userId" \in InjectedNow
    /\ args["userId"] = "U"

\* The contextual keys the model did not give for the call in flight.
NotGivenNow == {"regimentId", "userId"} \ DOMAIN function_calls[idx].args

\* C11: for each of regimentId and userId that the model did not give: when
\* the context holds a value for it, the arguments passed to the tool have
\* the key with the context's value; when the context holds none, the key
\* stays absent.
C11_AvailableContextIsInjected ==
    pc = "awaitTool" =>
        \A k \in NotGivenNow :
            IF Truthy(ContextValue(k))
            THEN k \in DOMAIN args /\ args[k] = ContextValue(k)
            ELSE k \notin DOMAIN args

\* A call the model gave no contextual key for is in flight with the
\* context's user id and without a regiment id, the context holding none.
C11_Witness ==
    /\ pc = "awaitTool"
    /\ regiment_id = None
    /\ user_id = "U"
    /\ NotGivenNow = {"regimentId", "userId"}
    /\ DOMAIN args \cap {"regimentId", "userId"} = {"userId"}
    /\ args["userId"] = "U"

\* C12: a failure of a model request, the first or a follow-up, is not
\* retried: in the step where the request fails the run ends by raising that
\* failure, and from then on the run sends no model request and calls no
\* tool.
C12_ModelFailureEndsRun ==
    [][model_failed' =>
        /\ pc' = "raised"
        /\ exc' = "ModelError"
        /\ requests' = requests
        /\ tools_called' = tools_called
        /\ inflight' = {}
      ]_vars

\* The third model request of a run failed, after two batches of tools.
C12_Witness ==
    /\ model_failed
    /\ pc = "raised"
    /\ requests = 3
    /\ batches = 2

\* C13: whenever a run has ended, by returning text or by propagating a
\* failure of a model request, the logger's request id is None.
C13_RequestIdClearedAtEnd ==
    (pc = "returned" \/ (pc = "raised" /\ model_failed)) => request_id = None

\* C14: with two overlapping runs, every log line a run writes once it has
\* set its id carries that run's own id.
C14_LinesCarryOwnId ==
    last_line # NoLine => last_line.prefix = run_request_id[last_line.run]

\* C15: when a run has ended, iterations is 1 plus the number of batches
\* executed and tools_called is the sequence of the tool names the model
\* asked for, in the order of the responses and, within a response, of its
\* calls.  Runs ended by a tool result that could not be printed are left
\* aside.
C15_ToolsCalledAreTheRequested ==
    (Ended /\ exc # "TypeError") =>
        /\ iterations = 1 + batches
        /\ tools_called = requested

\* C16: a run has at most one model request outstanding, and sends none
\* while one of its tool calls is in flight: a request is sent only when no
\* turn is waiting for an answer and no call is in flight, and while a turn
\* waits no call is in flight.
C16_OneRequestAndNoCallInFlight ==
    /\ [](outbound # NoTurn => inflight = {})
    /\ [][requests' # requests => (outbound = NoTurn /\ inflight' = {})]_vars

\* The third request is outstanding, answering a batch of two calls, and no
\* call is in flight.
C16_Witness ==
    /\ outbound # NoTurn
    /\ requests = 3
    /\ Len(function_calls) = 2
    /\ inflight = {}

\* C17: the history given to the model begins with the user turn "System
\* instructions: <prompt>" and a model turn that acknowledges it; with n > 0
\* prior turns it goes on with one user turn and one model turn of framing
\* and then the prior turns, roles and texts unchanged, in the given order,
\* 4 + n turns in all; with no prior turns, or None, it has just the two.
C17_SeedHistoryShape ==
    h_pc = "built" =>
        LET items == conversation_history.items
            n == Len(items)
        IN  /\ Len(history) >= 2
            /\ history[1] = Content("user", "System instructions: " \o system_prompt)
            /\ history[2] = Content("model", AckText)
            /\ IF n > 0
               THEN /\ Len(history) = 4 + n
                    /\ history[3].role = "user"
                    /\ history[4].role = "model"
                    /\ \A i \in 1..n :
                           /\ history[4 + i].role = items[i][1]
                           /\ history[4 + i].text = items[i][2]
               ELSE Len(history) = 2

\* A history of six turns was built for a prior conversation of a model
\* turn followed by a user turn.
C17_Witness ==
    /\ h_pc = "built"
    /\ conversation_history = HistoryList(<< <<"model", "c1">>, <<"user", "c2">> >>)
    /\ Len(history) = 6
    /\ history[5] = Content("model", "c1")
    /\ history[6] = Content("user", "c2")

\* C18: cleaning is idempotent: cleaning the cleaned text gives the cleaned
\* text, for every text, nested and repeated fences included.
C18_CleaningIsIdempotent == cl_pc = "done" => cl_twice = cl_once

\* The positions where the fences of s start, read from the left.
RECURSIVE FenceStarts(_, _)
FenceStarts(s, i) ==
    IF i + 2 > Len(s) THEN <<>>
    ELSE IF SubSeq(s, i, i + 2) = Fence
         THEN <<i>> \o FenceStarts(s, i + 3)
         ELSE FenceStarts(s, i + 1)

\* s is one fenced block and nothing else: it opens with a fence, closes
\* with a fence and has no other fence.
SingleBlock(s) ==
    /\ Len(FenceStarts(s, 1)) = 2
    /\ FenceStarts(s, 1)[1] = 1
    /\ FenceStarts(s, 1)[2] = Len(s) - 2

\* s is two fenced blocks, neither empty, with prose between them, the
\* first opening s and the second closing it.
TwoBlocksAroundProse(s) ==
    LET f == FenceStarts(s, 1)
    IN  /\ Len(f) = 4
        /\ f[1] = 1
        /\ f[4] = Len(s) - 2
        /\ Strip(SubSeq(s, f[1] + 3, f[2] - 1)) # <<>>
        /\ Strip(SubSeq(s, f[2] + 3, f[3] - 1)) # <<>>
        /\ Strip(SubSeq(s, f[3] + 3, f[4] - 1)) # <<>>

\* C19: a text whose fenced blocks are not one block spanning the whole
\* trimmed text is returned unchanged; stated for the trimmed texts made of
\* two blocks with prose between them, which open and close with a fence.
C19_SeparateBlocksLeftAlone ==
    (cl_pc # "first" /\ TwoBlocksAroundProse(Strip(cl_text))) => cl_once = cl_text

\* The interior of the single block s: what stands between the fences,
\* less a language tag that fills the rest of the opening line.
BlockInterior(s) ==
    LET between == SubSeq(s, 4, Len(s) - 3)
        nw == WordPrefixLen(between)
    IN  IF nw < Len(between) /\ between[nw + 1] = Newline
        THEN SubSeq(between, nw + 2, Len(between))
        ELSE between

\* C20: when the whole trimmed text is one fenced block, the result is the
\* interior of the block, trimmed, nothing of it lost, also when the
\* interior stands on the line of the opening fence.
C20_SingleBlockGivesInterior ==
    (cl_pc # "first" /\ SingleBlock(Strip(cl_text)))
        => cl_once = Strip(BlockInterior(Strip(cl_text)))

\* C21: registering a tool under a name that is already registered fails
\* with a duplicate-tool error and leaves the registry as it was.
C21_DuplicateRegistrationFails ==
    [][(reg_count' = reg_count + 1 /\ HasTool(registry, reg_op'.name)) =>
        /\ reg_raised' = "DuplicateToolError"
        /\ registry' = registry
      ]_vars

\* C22: once startup registration is over, list_tools and call_tool, with
\* registered or unregistered names and handlers that return or raise, leave
\* the registry as it is.
C22_RegistryReadOnlyAfterStartup ==
    [][reg_pc = "serving" => registry' = registry]_vars

\* A registry of two tools has answered a call of an unregistered tool with
\* the "Unknown tool" error, after a listing of its two tools.
C22_Witness ==
    /\ reg_pc = "serving"
    /\ Len(registry) = 2
    /\ Len(reg_listing) = 2
    /\ reg_op = ServerOp("call_tool", "do_magic")
    /\ reg_answer = ErrorContent("Unknown tool: do_magic")

\* C24: every tool of the catalog advertised to the model is registered on
\* the server: a call of an advertised tool that reaches the server is given
\* to a handler and is not answered with the "Unknown tool" error.
C24_AdvertisedToolsAreRegistered ==
    (ex_pc = "done"
        /\ ex_name \in DOMAIN FUNCTION_DECLARATIONS
        /\ ex_env.net = "delivered"
        /\ ex_env.authorized)
    => /\ ex_name \in RegisteredTools
       /\ ex_result # StrResult("error", "Unknown tool: " \o ex_name)

\* C23: time_end of a label that is not in the timer table, never started
\* or already ended, returns 0 and leaves the table as it is; time_end of a
\* started label removes it and nothing else, so that a second time_end
\* finds it gone.
C23_TimeEndConsumesOnce ==
    [][tm_op'.op = "time_end" =>
        LET l == tm_op'.label
        IN  /\ timers'[l] = Absent
            /\ \A k \in TimerLabels \ {l} : timers'[k] = timers[k]
            /\ timers[l] = Absent => (tm_ret' = 0 /\ timers' = timers)
            /\ timers[l] # Absent => tm_ret' = tm_clock - timers[l]
      ]_vars

\* A timer started at 0 was ended at 2 with result 2 and is gone, the other
\* label's timer still running.
C23_Witness ==
    /\ tm_op.op = "time_end"
    /\ tm_ret = 2
    /\ timers[tm_op.label] = Absent
    /\ \E k \in TimerLabels : timers[k] # Absent

\* C26: with two overlapping runs, a time_end(label) by a run that called
\* time(label) returns the time elapsed since that call of its own.
C26_TimeEndMeasuresOwnTimer ==
    (tm_op.op = "time_end" /\ tm_expected # Absent) => tm_ret = tm_expected

\* The characters of s other than newlines, in order.
NonNewline(s) == SelectSeq(s, LAMBDA ch : ch # Newline)

\* C28: split_message(text, n) with n >= 1 returns chunks of length 1 to n
\* each, and the characters of the chunks other than newlines, read in
\* order, are those of text.
C28_ChunksFitAndKeepText ==
    sp_pc = "done" =>
        /\ \A i \in 1..Len(sp_chunks) :
               1 <= Len(sp_chunks[i]) /\ Len(sp_chunks[i]) <= sp_max
        /\ NonNewline(Flatten(sp_chunks)) = NonNewline(sp_text)

\* A text of two lines, the first longer than the limit, was split into
\* three chunks.
C28_Witness ==
    /\ sp_pc = "done"
    /\ sp_max = 2
    /\ sp_text = <<"a", "b", "a", Newline, "b">>
    /\ Len(sp_chunks) = 3

\* C25: when process_with_ai raises for a message that passed the gating,
\* handle_message lets no exception out and replies with the apology; and
\* every message that passed the gating has, at the end, got the answer, as
\* one reply or as a reply and further chunks, or the apology.
C25_AnswerOrApology ==
    (hm_pc = "done") =>
        /\ hm_propagated = ""
        /\ hm_outcome.raises => hm_sent = <<Sent("reply", ApologyMessage, <<>>)>>
        /\ hm_sent # <<>>
        /\ hm_sent[1].via = "reply"

\* C27: fetch_conversation_history returns at most max_messages turns,
\* oldest first, each of role user or model, each taken from a message of
\* the channel before the current one that is not older than the cutoff,
\* and no user turn with an empty content; when reading the channel fails
\* it returns the turns collected before the failure.
C27_HistoryIsRecentAndOrdered ==
    fc_pc = "done" =>
        /\ Len(fc_result) <= fc_max
        /\ \A k \in 1..Len(fc_result) :
               /\ fc_result[k].role \in {"user", "model"}
               /\ fc_result[k].of \in 1..Len(fc_channel)
               /\ ~fc_channel[fc_result[k].of].old
               /\ fc_result[k].role = "user" =>
                      ~fc_channel[fc_result[k].of].stripped_empty
               /\ fc_fail_at # 0 => fc_result[k].of < fc_fail_at
        /\ \A j, k \in 1..Len(fc_result) :
               j < k => fc_result[j].of > fc_result[k].of

\* Reading the third message failed; the two turns collected before, a
\* user turn and the bot's answer to it, were returned oldest first.
C27_Witness ==
    /\ fc_pc = "done"
    /\ fc_fail_at = 3
    /\ Len(fc_channel) = 3
    /\ fc_max = 2
    /\ Len(fc_result) = 2
    /\ fc_result[1] = HistoryTurn("user", 2, TRUE)
    /\ fc_result[2] = HistoryTurn("model", 1, FALSE)

\* The positions of the log at which the view was cancelled or expired.
ViewEnded(k) == sv_log[k] \in {"cancel", "on_timeout"}

SavePositions == { k \in 1..Len(sv_log) : sv_log[k] = "save_scan_results" }

\* C29: for one view and any interleaving of confirm clicks, cancel clicks
\* and the timeout, save_scan_results is invoked at most once, and never
\* after the view has been cancelled or has expired.
C29_SavedOnceAndNeverAfterEnd ==
    /\ Cardinality(SavePositions) <= 1
    /\ \A k \in SavePositions : \A j \in 1..(k - 1) : ~ViewEnded(j)

\* A click of this step is by somebody other than the uploader.
OtherUserClicks(i) ==
    /\ sv_clicks[i].pc = "none"
    /\ sv_clicks'[i].pc # "none"
    /\ sv_clicks'[i].user # discord_user_id

\* C30: an interaction by anybody other than the user who uploaded the
\* screenshot is rejected: it is answered with the rejection message, its
\* callback never runs, and it calls no MCP tool, saves nothing and leaves
\* the buttons and the embed of the view as they were.
C30_OnlyUploaderConfirmsOrCancels ==
    /\ [](\A i \in Clicks :
            sv_clicks[i].user \notin {"", discord_user_id}
                => sv_clicks[i].pc = "rejected")
    /\ [][\A i \in Clicks :
            OtherUserClicks(i) =>
                /\ sv_ephemeral' = sv_ephemeral + 1
                /\ UNCHANGED <<sv_log, sv_buttons, sv_embed>>]_vars

\* Another user clicked Confirm and was rejected; the preview still shows
\* its buttons and no MCP tool has been called.
C30_Witness ==
    /\ sv_clicks[1] = Click("other", "confirm", "rejected")
    /\ sv_ephemeral = 1
    /\ sv_buttons
    /\ sv_embed = "Stockpile Scan"
    /\ sv_log = <<>>

\* The call of this step names a stockpile of the regiment it names.
CallOwnsStockpile ==
    /\ db_call'.stockpileId \in DOMAIN db_stockpiles
    /\ db_stockpiles[db_call'.stockpileId].regimentId = db_call'.regimentId

\* C31: refresh_stockpile and save_scan_results change a stockpile's row,
\* its items and the scan and refresh records only for a stockpile whose
\* regimentId is the regimentId argument; for a stockpile of another
\* regiment or an unknown stockpile they return an error result and leave
\* everything stored as it was.
C31_OnlyOwnStockpileIsModified ==
    [][db_call'.n # db_call.n =>
        /\ DOMAIN db_stockpiles' = DOMAIN db_stockpiles
        /\ \A s \in DOMAIN db_stockpiles :
              db_stockpiles'[s] # db_stockpiles[s] =>
                  /\ s = db_call'.stockpileId
                  /\ db_stockpiles[s].regimentId = db_call'.regimentId
        /\ \A k \in (Len(db_scans) + 1)..Len(db_scans') :
              /\ db_scans'[k].stockpileId = db_call'.stockpileId
              /\ CallOwnsStockpile
        /\ \A k \in (Len(db_refreshes) + 1)..Len(db_refreshes') :
              /\ db_refreshes'[k].stockpileId = db_call'.stockpileId
              /\ CallOwnsStockpile
        /\ SubSeq(db_scans', 1, Len(db_scans)) = db_scans
        /\ SubSeq(db_refreshes', 1, Len(db_refreshes)) = db_refreshes
        /\ ~CallOwnsStockpile =>
              /\ db_result'.textObj = "error"
              /\ UNCHANGED <<db_stockpiles, db_scans, db_refreshes>>]_vars

\* Regiment r1 saved a scan to its own stockpile and then tried to save one
\* to the stockpile of r2: the call returned an error and the stockpile of
\* r2 still holds its first items.
C31_Witness ==
    /\ db_call.tool = "save_scan_results"
    /\ db_call.regimentId = "r1"
    /\ db_call.stockpileId = "s2"
    /\ db_call.items # <<>>
    /\ db_result = ErrorContent("Stockpile not found")
    /\ Len(db_scans) = 1
    /\ db_stockpiles["s2"] = StockpileRow("r2", 0, 0, <<ScanItem("bmat", 1)>>)

\* C32: after update_production_progress on an existing order, the status is
\* COMPLETED if the order is not MPF and every item has quantityProduced >=
\* quantityRequired; otherwise it is IN_PROGRESS if it was PENDING and some
\* item has quantityProduced > 0; otherwise it is what it was.
C32_StatusFollowsProgress ==
    [][po_calls' # po_calls =>
        po_status' =
            IF ~po_isMpf /\ \A k \in 1..Len(po_items') :
                   po_items'[k].quantityProduced >= po_items'[k].quantityRequired
            THEN "COMPLETED"
            ELSE IF /\ po_status = "PENDING"
                    /\ \E k \in 1..Len(po_items') : po_items'[k].quantityProduced > 0
                 THEN "IN_PROGRESS"
                 ELSE po_status]_vars

\* Call c starts in this step, for guild g.
CacheCallStarts(c) == sc_calls[c].pc = "none" /\ sc_calls'[c].pc # "none"

\* Call c gets its answer in this step.
CacheCallFetched(c) == sc_calls[c].pc = "fetching" /\ sc_calls'[c].pc = "returned"

OtherGuildsKept(guild) ==
    \A g \in Guilds \ {guild} : sc_cache'[g] = sc_cache[g]

AvailableOf(code) ==
    IF code \in DOMAIN od_inventory THEN od_inventory[code] ELSE 0

\* C34: in the answer of get_operation_deficit every requirement has one
\* entry with deficit = max(0, required - available), whose status is
\* fulfilled exactly when the deficit is 0; in the summary totalAvailable +
\* totalDeficit = totalRequired, and criticalCount + partialCount +
\* fulfilledCount is the number of requirements.
C34_DeficitArithmetic ==
    od_pc = "done" =>
        /\ Len(od_items) = Len(od_requirements)
        /\ \A r \in 1..Len(od_requirements) :
              \E k \in 1..Len(od_items) :
                  LET req == od_requirements[r]
                      item == od_items[k]
                      expected == IF req.quantity - AvailableOf(req.itemCode) > 0
                                  THEN req.quantity - AvailableOf(req.itemCode)
                                  ELSE 0
                  IN  /\ item.itemCode = req.itemCode
                      /\ item.required = req.quantity
                      /\ item.available = AvailableOf(req.itemCode)
                      /\ item.deficit = expected
                      /\ (item.status = "fulfilled") <=> (expected = 0)
        /\ od_summary.totalAvailable + od_summary.totalDeficit
               = od_summary.totalRequired
        /\ od_summary.criticalCount + od_summary.partialCount
               + od_summary.fulfilledCount = Len(od_requirements)

\* An answer with one requirement held in excess and one that is critical.
C34_Witness ==
    /\ od_pc = "done"
    /\ Len(od_items) = 2
    /\ od_items[1].status = "critical"
    /\ od_items[1].deficit > 0
    /\ od_items[2].status = "fulfilled"
    /\ od_items[2].available > od_items[2].required
    /\ od_summary.totalDeficit > 0

====
